---- MODULE Spec2Model ----
(****************************************************************************)
(* Model of the gateway RPC client, src/src/server/gateway.ts, and of what  *)
(* surrounds it: the route GET /api/models, the CLI that starts the server, *)
(* the service worker of the page, and parts of the application: the        *)
(* follow-up suggestions, chatCompletion, the chat composer, the bulk       *)
(* deletion of the sidebar and the global search.                           *)
(*                                                                          *)
(* Every call of gatewayRpc / gatewayConnectCheck is an async function on   *)
(* the single-threaded event loop.  A call is modelled by its position      *)
(* (pc), the promise it is suspended on (awaited), its own WebSocket        *)
(* (readyState and registered listeners) and its own waiter map.  The       *)
(* synchronous code between two awaits is one action; the transport and     *)
(* the gateway are the environment.                                         *)
(*                                                                          *)
(* Each part has its own specification; the variables of the other parts    *)
(* keep their initial values in it.                                         *)
(****************************************************************************)
EXTENDS Integers, Sequences, FiniteSets, TLC

\* ------------------------------------------------------------------------
\* Bounds
\* ------------------------------------------------------------------------

\* Frames the gateway may push that nobody asked for (duplicates, unknown
\* ids, events, garbage), over all connections.
MaxFrames == 2

\* The concurrent calls of the facade that are modelled.
Calls == {1, 2}

\* The requests useFollowUpSuggestions may start.
MaxRequests == 2

\* The messages the chat composer may submit.
MaxSubmits == 2

\* The sessions that may be selected for deletion in the sidebar.
MaxItems == 3

\* The calls of searchAllSessions the search dialog may make.
MaxSearches == 2

\* ------------------------------------------------------------------------
\* Values
\* ------------------------------------------------------------------------

\* process.env values: a variable may be unset, blank, or hold a secret.
EnvValues == {"unset", "blank", "secret"}

\* The environments of the server: CLAWDBOT_GATEWAY_TOKEN and
\* CLAWDBOT_GATEWAY_PASSWORD.  Blank values are modelled where they decide
\* the outcome, that is when no variable holds a secret.
Envs ==
    { e \in [token : EnvValues, password : EnvValues] :
        "secret" \in {e.token, e.password} => "blank" \notin {e.token, e.password} }

TrimOrEmptyNoTrim(raw) == IF raw = "unset" THEN "" ELSE raw

\* String.prototype.trim with the `?.trim() || ''` default of getGatewayConfig.
TrimOrEmpty(raw) == IF raw = "secret" THEN "secret" ELSE ""

\* randomUUID(): every call draws two fresh ids, distinct from all others.
ConnectId(c) == 2 * c - 1
RequestId(c) == 2 * c

\* An id no call ever issued.
UnknownId == 0

NoId == -1

FrameIds == {UnknownId} \cup {ConnectId(c) : c \in Calls} \cup {RequestId(c) : c \in Calls}

Payloads == {"undefined", "p1"}

NoError == [present |-> FALSE, hasMessage |-> FALSE, message |-> ""]

Errors ==
    { NoError,
      [present |-> TRUE, hasMessage |-> FALSE, message |-> ""],
      [present |-> TRUE, hasMessage |-> TRUE, message |-> ""],
      [present |-> TRUE, hasMessage |-> TRUE, message |-> "bad token"] }

\* GatewayFrame, as it arrives on the wire.  "garbage" is text JSON.parse
\* rejects, "null" is the JSON text null.
ResFrames ==
    { [type |-> "res", id |-> i, ok |-> TRUE, payload |-> p, error |-> NoError] :
        i \in FrameIds, p \in Payloads }
    \cup
    { [type |-> "res", id |-> i, ok |-> FALSE, payload |-> "undefined", error |-> e] :
        i \in FrameIds, e \in Errors }

OtherFrames ==
    { [type |-> t, id |-> i, ok |-> FALSE, payload |-> "undefined", error |-> NoError] :
        t \in {"garbage", "null", "event"}, i \in {NoId} }
    \cup
    { [type |-> "req", id |-> i, ok |-> FALSE, payload |-> "undefined", error |-> NoError] :
        i \in FrameIds }

Frames == ResFrames \cup OtherFrames

MissingAuth == "Missing gateway auth"
WebSocketError == "WebSocket error"
NotOpenError == "WebSocket is not open"
GatewayError == "gateway error"

NoOutcome == [kind |-> "none", val |-> ""]
Resolved(v) == [kind |-> "resolved", val |-> v]
Rejected(m) == [kind |-> "rejected", val |-> m]

NotAwaiting == [on |-> "none", id |-> NoId, state |-> "pending", val |-> ""]
Awaiting(what, i) == [on |-> what, id |-> i, state |-> "pending", val |-> ""]

Event(name, i, v) == [e |-> name, id |-> i, val |-> v]

\* Gateway URLs: the default of both the CLI and getGatewayConfig, and another.
DefaultGatewayUrl == "ws://127.0.0.1:18789"
OtherGatewayUrl == "ws://gateway.example:18789"

\* process.argv without --gateway.
NoFlag == "absent"

\* public/sw.js: the caches of this version, and one left by an earlier version.
CACHE_NAME == "opencami-v1"
STATIC_CACHE == "opencami-static-v1"
API_CACHE == "opencami-api-v1"
OldCache == "opencami-v0"
CacheNames == {CACHE_NAME, STATIC_CACHE, API_CACHE, OldCache}

\* The URLs of the site that are modelled: two pages, an icon, a hashed
\* bundle, a script outside /assets/ and an API route.
Urls == {"/", "/chat/main", "/favicon.svg", "/assets/main.js", "/sw.js", "/api/models"}

\* Those of PRECACHE_URLS that are modelled (the other four are icons, like
\* /favicon.svg, and the manifest).
PRECACHE_URLS == {"/", "/favicon.svg"}

\* The versions of the site the network serves, one per deployment.
MaxVersion == 2

\* What fetch(event.request) does: a response with response.ok, a response
\* without (404, 500), or a rejection (offline).
NetOutcomes == {"ok", "notok", "fail"}

\* The fetch events of the browser: page loads, subresources, API calls, a
\* WebSocket upgrade and a request that is not HTTP(S).
FetchEvents ==
    { [url |-> u, protocol |-> "https:", upgrade |-> FALSE,
       mode |-> IF u \in {"/", "/chat/main"} THEN "navigate" ELSE "no-cors"] : u \in Urls }
    \cup
    { [url |-> "/api/models", protocol |-> "https:", upgrade |-> TRUE, mode |-> "websocket"],
      [url |-> "/", protocol |-> "chrome-extension:", upgrade |-> FALSE, mode |-> "no-cors"],
      [url |-> "/api/models", protocol |-> "https:", upgrade |-> FALSE, mode |-> "navigate"] }

\* No fetch event was handled yet.
NoFetch ==
    [req |-> [url |-> "", protocol |-> "", upgrade |-> FALSE, mode |-> ""],
     net |-> "unused", from |-> "none", key |-> "", ver |-> 0, ok |-> FALSE]

\* A response text, as far as the follow-up generator looks at it: its first
\* 200 characters, its length, what follows them, and what each detector
\* (hasCode, hasList, hasAlternatives, isExplanatory, hasCaveats,
\* extractTopics) finds in it.
ResponseTexts ==
    [head : {"A", "B"}, tail : {"x", "y"}, len : {10, 300},
     code : BOOLEAN, list : BOOLEAN, alternatives : BOOLEAN,
     explanatory : BOOLEAN, caveats : BOOLEAN,
     topics : {<<>>, <<"React">>, <<"Vite", "React">>}]

\* Two answers the chat shows.
AnswerA ==
    [head |-> "A", tail |-> "x", len |-> 300, code |-> TRUE, list |-> FALSE,
     alternatives |-> FALSE, explanatory |-> TRUE, caveats |-> FALSE, topics |-> <<>>]
AnswerB ==
    [head |-> "B", tail |-> "x", len |-> 300, code |-> FALSE, list |-> TRUE,
     alternatives |-> FALSE, explanatory |-> FALSE, caveats |-> FALSE,
     topics |-> <<"React">>]

\* The arguments of useFollowUpSuggestions, the options with their defaults:
\* the response is a text too short for suggestions, an answer, the same
\* answer changed after its first 200 characters, or another answer.
FollowUpProps ==
    [responseText : {[AnswerA EXCEPT !.len = 10], AnswerA,
                     [AnswerA EXCEPT !.tail = "y"], AnswerB},
     contextSummary : {"undefined", "summary"},
     minResponseLength : {50, 400},
     timeoutMs : {8000, 2000},
     heuristicsOnly : BOOLEAN]

\* The state of useFollowUpSuggestions after useState.
NoSuggestions == [suggestions |-> <<>>, isLoading |-> FALSE, error |-> "null", source |-> "null"]

\* ------------------------------------------------------------------------
\* State
\* ------------------------------------------------------------------------

VARIABLES
    env,        \* process.env: [token, password]
    kind,       \* per call: "none", "rpc" (gatewayRpc) or "check" (gatewayConnectCheck)
    pc,         \* per call: the await the async function is suspended on
    ws,         \* per call: readyState of its WebSocket ("none" before new WebSocket)
    listeners,  \* per call: the event names that have a listener on its WebSocket
    waiters,    \* per call: the keys of the waiters Map of its createGatewayWaiter()
    awaited,    \* per call: the promise the call is suspended on
    outcome,    \* per call: completion of the try block, held while finally runs
    result,     \* per call: what the caller of the facade observes
    events,     \* per call: the steps taken and what was done with each response
                \* frame handled, in order
    dropped,    \* per call: the transport failed on its own after it was open
    frames,     \* unsolicited frames delivered so far
    uncaught,   \* an exception escaped a listener
    active,     \* the calls the server makes in this run
    wsUrl,      \* per call: the URL given to new WebSocket
    skipped,    \* the calls whose handleMessage was given a frame that is no
                \* response while a waiter was pending
    urlEnv,     \* process.env: [CLAWDBOT_GATEWAY_URL, OPENCLAW_GATEWAY]
    argv,       \* the command line of the CLI: what follows --gateway
    cli,        \* "none" (the server runs without the CLI), "starting", "serving"
    swPhase,    \* the service worker: "none", "installed", "active"
    swCaches,   \* CacheStorage: per cache name and URL, the version held (0: no entry)
    swNet,      \* the version of the site the network serves
    swLast,     \* the last fetch event and how it was answered
    heuristic,  \* a call of getFollowUpTexts: [text, suggestions, done]
    followUpProps,      \* useFollowUpSuggestions: the arguments of the last render
    followUpState,      \* its state: [suggestions, isLoading, error, source]
    lastResponseRef,    \* its ref: the key of the last response processed
    abortControllerRef, \* its ref: the index of the last controller (0: null)
    followUpRequests,   \* the requests it started, in order: [text, aborted,
                        \* settled, superseded]
    effectCleanup,      \* the controller the cleanup of its last effect aborts
                        \* (0: the effect returned no cleanup)
    hookMounted,        \* "no", "yes", "unmounted"
    llm,        \* a call of chatCompletion
    composer,   \* the chat composer: its props and its state
    submitted,  \* the calls of onSubmit the composer made, in order
    pool,       \* a call of runWithConcurrency
    search      \* the hook useSearch and the calls of searchAllSessions

\* The state of the CLI and of the service worker.
cliVars == <<urlEnv, argv, cli>>
swVars == <<swPhase, swCaches, swNet, swLast>>

gatewayVars == <<active, env, kind, pc, ws, wsUrl, listeners, waiters, awaited, outcome,
                 result, events, dropped, frames, uncaught, skipped>>

\* The state of the application's other parts.
hookVars == <<followUpProps, followUpState, lastResponseRef, abortControllerRef,
              followUpRequests, effectCleanup, hookMounted>>
appVars == <<heuristic, hookVars, llm, composer, submitted, pool, search>>

vars == <<gatewayVars, cliVars, swVars, appVars>>

\* No call has started.
InitCalls ==
    /\ kind = [c \in Calls |-> "none"]
    /\ pc = [c \in Calls |-> "idle"]
    /\ ws = [c \in Calls |-> "none"]
    /\ wsUrl = [c \in Calls |-> ""]
    /\ listeners = [c \in Calls |-> {}]
    /\ waiters = [c \in Calls |-> {}]
    /\ awaited = [c \in Calls |-> NotAwaiting]
    /\ outcome = [c \in Calls |-> NoOutcome]
    /\ result = [c \in Calls |-> NoOutcome]
    /\ events = [c \in Calls |-> <<>>]
    /\ dropped = [c \in Calls |-> FALSE]
    /\ uncaught = FALSE
    /\ skipped = {}

InitState ==
    /\ env \in Envs
    /\ InitCalls
    /\ frames = 0

\* The server was started without the CLI and CLAWDBOT_GATEWAY_URL is not set.
NoCli ==
    /\ argv = NoFlag
    /\ urlEnv = [CLAWDBOT_GATEWAY_URL |-> "unset", OPENCLAW_GATEWAY |-> "unset"]
    /\ cli = "none"

\* No browser has loaded the page: no service worker is registered.
NoServiceWorker ==
    /\ swPhase = "none"
    /\ swCaches = [n \in CacheNames |-> [u \in Urls |-> 0]]
    /\ swNet = 1
    /\ swLast = NoFetch

\* None of the application's other parts runs: no response is shown,
\* chatCompletion is not called, and the chat screen with its composer, its
\* sidebar and its search dialog is not mounted.
NoApp ==
    /\ heuristic = [text |-> AnswerA, suggestions |-> <<>>, done |-> FALSE]
    /\ followUpProps = [responseText |-> AnswerA, contextSummary |-> "undefined",
                        minResponseLength |-> 50, timeoutMs |-> 8000,
                        heuristicsOnly |-> FALSE]
    /\ followUpState = NoSuggestions
    /\ lastResponseRef = <<"", 0>>
    /\ abortControllerRef = 0
    /\ followUpRequests = <<>>
    /\ effectCleanup = 0
    /\ hookMounted = "no"
    /\ llm = [pc |-> "idle", model |-> "undefined", requests |-> <<>>,
              lastError |-> "null", result |-> "pending"]
    /\ composer = [mounted |-> FALSE, disabled |-> FALSE, value |-> "", attachments |-> 0,
                   selectedCommandIndex |-> 0, slashMenuDismissed |-> FALSE]
    /\ submitted = <<>>
    /\ pool = [pc |-> "idle", items |-> 0, limit |-> 1, index |-> 0, runners |-> <<>>,
               calls |-> [i \in 1..MaxItems |-> 0],
               workers |-> [i \in 1..MaxItems |-> "none"],
               errors |-> <<>>, result |-> <<>>]
    /\ search = [localQuery |-> "", timer |-> "none", globalResults |-> <<>>,
                 isSearching |-> FALSE, cached |-> {}, calls |-> <<>>]

\* The server makes no gateway call, and no part of the application runs
\* yet.
AppInit ==
    /\ env = [token |-> "secret", password |-> "unset"]
    /\ InitCalls
    /\ frames = 0
    /\ active = {}
    /\ NoCli
    /\ NoServiceWorker
    /\ NoApp

\* One call of the facade.
Init ==
    /\ InitState
    /\ active = {1}
    /\ NoCli
    /\ NoServiceWorker
    /\ NoApp

\* ------------------------------------------------------------------------
\* getGatewayConfig
\* ------------------------------------------------------------------------

\* process.env.CLAWDBOT_GATEWAY_URL?.trim() || 'ws://127.0.0.1:18789'
getGatewayUrl(u) ==
    IF u.CLAWDBOT_GATEWAY_URL \in {"unset", "blank"} THEN DefaultGatewayUrl
    ELSE u.CLAWDBOT_GATEWAY_URL

\* The configuration, or the thrown error.
getGatewayConfig(e) ==
    LET token == TrimOrEmpty(e.token)
        password == TrimOrEmpty(e.password)
    IN  IF token = "" /\ password = ""
        THEN [ok |-> FALSE, token |-> token, password |-> password]
        ELSE [ok |-> TRUE, token |-> token, password |-> password]

\* ------------------------------------------------------------------------
\* createGatewayWaiter
\* ------------------------------------------------------------------------

ErrorMessageOr(error) ==
    IF error.present /\ error.hasMessage /\ error.message # "" THEN error.message ELSE GatewayError

\* parsed.error?.message ?? 'gateway error'
ErrorMessage(error) ==
    IF error.present /\ error.hasMessage THEN error.message ELSE GatewayError

\* JSON.parse(str) throws on garbage, and parsed.type throws on null.
ParseThrows(f) == f.type \in {"garbage", "null"}

DeleteWaiterKeeps(w, id) == w

\* waiters.delete(parsed.id)
DeleteWaiter(w, id) == w \ {id}

\* Settles whichever waiter is pending, whatever the id of the frame.
handleMessageTryAnyId(w, f) ==
    IF ParseThrows(f)
    THEN [waiters |-> w, settle |-> Event("ignore", NoId, f.type), threw |-> TRUE]
    ELSE IF f.type # "res" \/ w = {}
    THEN [waiters |-> w, settle |-> Event("ignore", f.id, f.type), threw |-> FALSE]
    ELSE LET i == CHOOSE x \in w : TRUE
         IN  [waiters |-> DeleteWaiter(w, i),
              settle |-> IF f.ok THEN Event("resolve", i, f.payload)
                         ELSE Event("reject", i, ErrorMessage(f.error)),
              threw |-> FALSE]

createGatewayWaiterShared(c) == CHOOSE d \in Calls : \A e \in Calls : d <= e

\* `const waiter = createGatewayWaiter()`: the waiters Map of call c, a new
\* Map for every call.
createGatewayWaiter(c) == c

\* The body of the try block of handleMessage(data) on the waiter map w: the
\* map afterwards, what was done to a waiter, and whether it threw.
handleMessageTry(w, f) ==
    IF ParseThrows(f)
    THEN [waiters |-> w, settle |-> Event("ignore", NoId, f.type), threw |-> TRUE]
    ELSE IF f.type # "res"
    THEN [waiters |-> w, settle |-> Event("ignore", f.id, f.type), threw |-> FALSE]
    ELSE IF f.id \notin w
    THEN [waiters |-> w, settle |-> Event("ignore", f.id, f.type), threw |-> FALSE]
    ELSE [waiters |-> DeleteWaiter(w, f.id),
          settle |-> IF f.ok THEN Event("resolve", f.id, f.payload)
                     ELSE Event("reject", f.id, ErrorMessage(f.error)),
          threw |-> FALSE]

handleMessageNoCatch(w, f) == handleMessageTry(w, f)

\* handleMessage(data): `catch { /* ignore parse errors */ }`
handleMessage(w, f) ==
    LET r == handleMessageTry(w, f)
    IN  IF r.threw THEN [r EXCEPT !.threw = FALSE] ELSE r

\* The promise p after the resolve/reject of the waiter of an id was called:
\* a promise settles once, later calls do nothing.
Settle(p, s) ==
    IF p.on = "res" /\ p.id = s.id /\ p.state = "pending" /\ s.e \in {"resolve", "reject"}
    THEN [p EXCEPT !.state = IF s.e = "resolve" THEN "resolved" ELSE "rejected",
                   !.val = s.val]
    ELSE p

\* ------------------------------------------------------------------------
\* What the log says
\* ------------------------------------------------------------------------

Has(c, name, i) == \E k \in 1..Len(events[c]) : events[c][k].e = name /\ events[c][k].id = i

Count(c, names, i) ==
    Cardinality({k \in 1..Len(events[c]) : events[c][k].e \in names /\ events[c][k].id = i})

\* The position of the first entry with this name and id, 0 when there is none.
First(c, name, i) ==
    IF Has(c, name, i)
    THEN CHOOSE k \in 1..Len(events[c]) :
            /\ events[c][k].e = name /\ events[c][k].id = i
            /\ \A j \in 1..(k - 1) : ~(events[c][j].e = name /\ events[c][j].id = i)
    ELSE 0

\* ------------------------------------------------------------------------
\* gatewayRpc / gatewayConnectCheck: entry
\* ------------------------------------------------------------------------

\* wsOpen: `if (ws.readyState === ws.OPEN) return`
wsOpenReturnsEarly(readyState) == readyState = "OPEN"

\* The call starts: getGatewayConfig(), new WebSocket(url), wsOpen(ws) up to
\* its await.  A fresh socket is CONNECTING.
Start(c, k) ==
    /\ c \in active
    /\ cli # "starting"
    /\ pc[c] = "idle"
    /\ kind' = [kind EXCEPT ![c] = k]
    /\ IF ~getGatewayConfig(env).ok
       THEN /\ pc' = [pc EXCEPT ![c] = "done"]
            /\ result' = [result EXCEPT ![c] = Rejected(MissingAuth)]
            /\ UNCHANGED <<ws, wsUrl, listeners, awaited, events>>
       ELSE /\ ws' = [ws EXCEPT ![c] = "CONNECTING"]
            /\ wsUrl' = [wsUrl EXCEPT ![c] = getGatewayUrl(urlEnv)]
            /\ events' = [events EXCEPT ![c] = Append(@, Event("new_ws", NoId, ""))]
            /\ IF wsOpenReturnsEarly("CONNECTING")
               THEN /\ awaited' = [awaited EXCEPT ![c] = [Awaiting("open", NoId) EXCEPT !.state = "resolved"]]
                    /\ UNCHANGED listeners
               ELSE /\ awaited' = [awaited EXCEPT ![c] = Awaiting("open", NoId)]
                    /\ listeners' = [listeners EXCEPT ![c] = {"open", "error"}]
            /\ pc' = [pc EXCEPT ![c] = "opening"]
            /\ UNCHANGED result
    /\ UNCHANGED <<cliVars, swVars, appVars, skipped, active, env, waiters, outcome, dropped, frames, uncaught>>

\* ------------------------------------------------------------------------
\* The transport (ws): events it emits
\* ------------------------------------------------------------------------

\* 'open': onOpen runs cleanup() and resolve().
TransportOpen(c) ==
    /\ ws[c] = "CONNECTING"
    /\ ws' = [ws EXCEPT ![c] = "OPEN"]
    /\ IF "open" \in listeners[c]
       THEN /\ listeners' = [listeners EXCEPT ![c] = @ \ {"open", "error"}]
            /\ awaited' = [awaited EXCEPT ![c] =
                  IF @.on = "open" /\ @.state = "pending" THEN [@ EXCEPT !.state = "resolved"] ELSE @]
       ELSE UNCHANGED <<listeners, awaited>>
    /\ UNCHANGED <<cliVars, swVars, appVars, wsUrl, skipped, active, env, kind, pc, waiters, outcome, result, events, dropped, frames, uncaught>>

\* onError of wsOpen: reject(new Error(`WebSocket error: ${err.message}`))
onErrorResolves(p) == [p EXCEPT !.state = "resolved"]
onError(p) == [p EXCEPT !.state = "rejected", !.val = WebSocketError]

\* 'error' while connecting: the socket is already closing when the event is
\* emitted; onError runs cleanup() and reject().
TransportError(c) ==
    /\ ws[c] = "CONNECTING"
    /\ ws' = [ws EXCEPT ![c] = "CLOSING"]
    /\ events' = [events EXCEPT ![c] = Append(@, Event("error", NoId, ""))]
    /\ IF "error" \in listeners[c]
       THEN /\ listeners' = [listeners EXCEPT ![c] = @ \ {"open", "error"}]
            /\ awaited' = [awaited EXCEPT ![c] =
                  IF @.on = "open" /\ @.state = "pending" THEN onError(@) ELSE @]
       ELSE UNCHANGED <<listeners, awaited>>
    /\ UNCHANGED <<cliVars, swVars, appVars, wsUrl, skipped, active, env, kind, pc, waiters, outcome, result, dropped, frames, uncaught>>

\* The continuation of `await wsOpen(ws)` runs in the microtasks of the 'open'
\* event, before the socket emits anything else.
OpenHandled(c) == pc[c] # "opening"

\* An 'error' on the open socket, or the peer closing it: wsOpen removed its
\* 'error' listener in cleanup(), and nothing listens for 'close' until wsClose.
TransportLost(c) ==
    /\ ws[c] = "OPEN"
    /\ OpenHandled(c)
    /\ ws' = [ws EXCEPT ![c] = "CLOSING"]
    /\ dropped' = [dropped EXCEPT ![c] = TRUE]
    /\ UNCHANGED <<cliVars, swVars, appVars, wsUrl, skipped, active, env, kind, pc, listeners, waiters, awaited, outcome, result, events, frames, uncaught>>

\* 'close': the listener wsClose added with {once: true} resolves its promise.
TransportClosed(c) ==
    /\ ws[c] = "CLOSING"
    /\ ws' = [ws EXCEPT ![c] = "CLOSED"]
    /\ IF "close" \in listeners[c]
       THEN /\ listeners' = [listeners EXCEPT ![c] = @ \ {"close"}]
            /\ awaited' = [awaited EXCEPT ![c] =
                  IF @.on = "close" /\ @.state = "pending" THEN [@ EXCEPT !.state = "resolved"] ELSE @]
       ELSE UNCHANGED <<listeners, awaited>>
    /\ UNCHANGED <<cliVars, swVars, appVars, wsUrl, skipped, active, env, kind, pc, waiters, outcome, result, events, dropped, frames, uncaught>>

\* ------------------------------------------------------------------------
\* wsClose and the finally block
\* ------------------------------------------------------------------------

wsCloseNever(readyState) == TRUE

CloseErrorThrown(out) == Rejected("close failed")

\* `try { await wsClose(ws) } catch { /* ignore */ }`: the completion of the
\* try block of the call stands.
CloseErrorIgnored(out) == out

\* wsClose: `if (ws.readyState === ws.CLOSED || ws.readyState === ws.CLOSING) return`
wsCloseReturnsEarly(readyState) == readyState \in {"CLOSED", "CLOSING"}

\* `finally { try { await wsClose(ws) } catch {} }` with the completion `out`
\* of the try block, the listeners `lst` and the log `evs` it left.  ws.close()
\* moves the socket to CLOSING; should it throw, the catch swallows it.
Finally(c, out, lst, evs) ==
    IF wsCloseReturnsEarly(ws[c])
    THEN /\ pc' = [pc EXCEPT ![c] = "done"]
         /\ result' = [result EXCEPT ![c] = out]
         /\ listeners' = [listeners EXCEPT ![c] = lst]
         /\ events' = [events EXCEPT ![c] = evs]
         /\ awaited' = [awaited EXCEPT ![c] = NotAwaiting]
         /\ UNCHANGED <<ws, outcome>>
    ELSE /\ ws' = [ws EXCEPT ![c] = "CLOSING"]
         /\ listeners' = [listeners EXCEPT ![c] = lst \cup {"close"}]
         /\ \E throws \in BOOLEAN :
               IF throws
               THEN /\ events' = [events EXCEPT ![c] =
                           Append(Append(evs, Event("close", NoId, "")),
                                  Event("close_threw", NoId, ""))]
                    /\ pc' = [pc EXCEPT ![c] = "done"]
                    /\ result' = [result EXCEPT ![c] = CloseErrorIgnored(out)]
                    /\ awaited' = [awaited EXCEPT ![c] = NotAwaiting]
                    /\ UNCHANGED outcome
               ELSE /\ events' = [events EXCEPT ![c] = Append(evs, Event("close", NoId, ""))]
                    /\ pc' = [pc EXCEPT ![c] = "closing"]
                    /\ awaited' = [awaited EXCEPT ![c] = Awaiting("close", NoId)]
                    /\ outcome' = [outcome EXCEPT ![c] = out]
                    /\ UNCHANGED result

\* The close event arrived: wsClose returns, the call completes.
CloseDone(c) ==
    /\ pc[c] = "closing"
    /\ awaited[c].on = "close" /\ awaited[c].state = "resolved"
    /\ pc' = [pc EXCEPT ![c] = "done"]
    /\ result' = [result EXCEPT ![c] = outcome[c]]
    /\ awaited' = [awaited EXCEPT ![c] = NotAwaiting]
    /\ UNCHANGED <<cliVars, swVars, appVars, wsUrl, skipped, active, env, kind, ws, listeners, waiters, outcome, events, dropped, frames, uncaught>>

\* ------------------------------------------------------------------------
\* gatewayRpc / gatewayConnectCheck: the continuations after each await
\* ------------------------------------------------------------------------

\* ws.send(data) on a socket in this state: an open socket transmits, a
\* connecting one throws, a closing or closed one throws or discards the
\* data, depending on the version of ws.
SendOutcomes(readyState) ==
    IF readyState = "OPEN" THEN {"sent"}
    ELSE IF readyState = "CONNECTING" THEN {"throws"}
    ELSE {"throws", "discarded"}

\* `await p` returns / throws.
Returns(p) == p.state = "resolved"
Throws(p) == p.state = "rejected"

HandshakeSettled(p) == p.on = "res" /\ p.state # "pending"

\* `await waiter.waitForRes(connectId)` lets the call go on to the request.
HandshakeAccepted(p) == p.on = "res" /\ Returns(p)

\* ws.send(JSON.stringify(frame)); waiter.waitForRes(id), or the throw of send.
SendAndWait(c, id, lst, evs, next) ==
    \E o \in SendOutcomes(ws[c]) :
        IF o = "throws"
        THEN /\ Finally(c, Rejected(NotOpenError), lst, evs)
             /\ UNCHANGED waiters
        ELSE /\ events' = [events EXCEPT ![c] =
                    LET e1 == IF o = "sent" THEN Append(evs, Event("send", id, "")) ELSE evs
                    IN  Append(e1, Event("register", id, ""))]
             /\ waiters' = [waiters EXCEPT ![createGatewayWaiter(c)] = @ \cup {id}]
             /\ awaited' = [awaited EXCEPT ![c] = Awaiting("res", id)]
             /\ listeners' = [listeners EXCEPT ![c] = lst]
             /\ pc' = [pc EXCEPT ![c] = next]
             /\ UNCHANGED <<ws, outcome, result>>

HandshakeNoHandler(c) ==
    /\ pc[c] = "opening"
    /\ Returns(awaited[c])
    /\ SendAndWait(c, ConnectId(c), listeners[c], events[c], "handshaking")
    /\ UNCHANGED <<cliVars, swVars, appVars, wsUrl, skipped, active, env, kind, dropped, frames, uncaught>>

\* wsOpen resolved: createGatewayWaiter(), ws.on('message', handleMessage),
\* ws.send(connectReq), waitForRes(connectId).
Handshake(c) ==
    /\ pc[c] = "opening"
    /\ Returns(awaited[c])
    /\ SendAndWait(c, ConnectId(c), listeners[c] \cup {"message"},
                   Append(events[c], Event("on_message", NoId, "")), "handshaking")
    /\ UNCHANGED <<cliVars, swVars, appVars, wsUrl, skipped, active, env, kind, dropped, frames, uncaught>>

\* wsOpen rejected.
OpenFailed(c) ==
    /\ pc[c] = "opening"
    /\ Throws(awaited[c])
    /\ Finally(c, Rejected(awaited[c].val), listeners[c], events[c])
    /\ UNCHANGED <<cliVars, swVars, appVars, wsUrl, skipped, active, env, kind, waiters, dropped, frames, uncaught>>

\* gatewayRpc, the handshake resolved: ws.send(req), waitForRes(requestId).
SendRequest(c) ==
    /\ pc[c] = "handshaking"
    /\ kind[c] = "rpc"
    /\ HandshakeAccepted(awaited[c])
    /\ SendAndWait(c, RequestId(c), listeners[c], events[c], "requesting")
    /\ UNCHANGED <<cliVars, swVars, appVars, wsUrl, skipped, active, env, kind, dropped, frames, uncaught>>

CheckDoneSendsRequest(c) ==
    /\ pc[c] = "handshaking"
    /\ kind[c] = "check"
    /\ HandshakeAccepted(awaited[c])
    /\ SendAndWait(c, RequestId(c), listeners[c], events[c], "requesting")
    /\ UNCHANGED <<cliVars, swVars, appVars, wsUrl, skipped, active, env, kind, dropped, frames, uncaught>>

\* gatewayConnectCheck, the handshake resolved: ws.off('message', ...), finally.
CheckDone(c) ==
    /\ pc[c] = "handshaking"
    /\ kind[c] = "check"
    /\ HandshakeAccepted(awaited[c])
    /\ Finally(c, Resolved("undefined"), listeners[c] \ {"message"},
               Append(events[c], Event("off_message", NoId, "")))
    /\ UNCHANGED <<cliVars, swVars, appVars, wsUrl, skipped, active, env, kind, waiters, dropped, frames, uncaught>>

HandshakeFailedRetries(c) ==
    /\ pc[c] = "handshaking"
    /\ Throws(awaited[c])
    /\ SendAndWait(c, ConnectId(c), listeners[c], events[c], "handshaking")
    /\ UNCHANGED <<cliVars, swVars, appVars, wsUrl, skipped, active, env, kind, dropped, frames, uncaught>>

\* The handshake was rejected: the await throws, finally runs.
HandshakeFailed(c) ==
    /\ pc[c] = "handshaking"
    /\ Throws(awaited[c])
    /\ Finally(c, Rejected(awaited[c].val), listeners[c], events[c])
    /\ UNCHANGED <<cliVars, swVars, appVars, wsUrl, skipped, active, env, kind, waiters, dropped, frames, uncaught>>

ReturnNothing(p) == "undefined"

\* `const payload = await waiter.waitForRes(requestId)`, `return payload`
ReturnValue(p) == p.val

\* The request resolved: ws.off('message', ...), return payload, finally.
ResponseReceived(c) ==
    /\ pc[c] = "requesting"
    /\ Returns(awaited[c])
    /\ Finally(c, Resolved(ReturnValue(awaited[c])), listeners[c] \ {"message"},
               Append(events[c], Event("off_message", NoId, "")))
    /\ UNCHANGED <<cliVars, swVars, appVars, wsUrl, skipped, active, env, kind, waiters, dropped, frames, uncaught>>

\* The request was rejected: the await throws, finally runs.
RequestFailed(c) ==
    /\ pc[c] = "requesting"
    /\ Throws(awaited[c])
    /\ Finally(c, Rejected(awaited[c].val), listeners[c], events[c])
    /\ UNCHANGED <<cliVars, swVars, appVars, wsUrl, skipped, active, env, kind, waiters, dropped, frames, uncaught>>

\* ------------------------------------------------------------------------
\* The gateway: frames arriving on a connection
\* ------------------------------------------------------------------------

\* The socket still emits 'message': it is open, or this side asked to close
\* and the closing handshake is not finished.
CanReceive(c) ==
    \/ ws[c] = "OPEN" /\ OpenHandled(c)
    \/ ws[c] = "CLOSING" /\ Has(c, "close", NoId) /\ ~dropped[c]

\* The 'message' event with frame f: handleMessage runs if it is attached.
Deliver(c, f) ==
    /\ CanReceive(c)
    /\ IF "message" \in listeners[c]
       THEN LET m == createGatewayWaiter(c)
                r == handleMessage(waiters[m], f)
            IN  /\ waiters' = [waiters EXCEPT ![m] = r.waiters]
                /\ awaited' = [d \in Calls |->
                      IF createGatewayWaiter(d) = m THEN Settle(awaited[d], r.settle)
                      ELSE awaited[d]]
                /\ events' = [events EXCEPT ![c] =
                      IF f.type = "res" THEN Append(@, r.settle) ELSE @]
                /\ uncaught' = (uncaught \/ r.threw)
                /\ skipped' = IF f.type # "res" /\ waiters[m] # {} THEN skipped \cup {c} ELSE skipped
       ELSE UNCHANGED <<waiters, awaited, events, uncaught, skipped>>
    /\ UNCHANGED <<cliVars, swVars, appVars, wsUrl, active, env, kind, pc, ws, listeners, outcome, result, dropped>>

\* The gateway answers a request it received and has not answered.
GatewayAnswer(c, f) ==
    /\ f \in ResFrames
    /\ f.id \in waiters[createGatewayWaiter(c)]
    /\ Has(c, "send", f.id)
    /\ ws[c] = "OPEN"
    /\ Deliver(c, f)
    /\ UNCHANGED frames

\* Any other frame: a duplicate, an unknown id, an event, garbage.
UnsolicitedFrame(c, f) ==
    /\ frames < MaxFrames
    /\ f.id \in {NoId, UnknownId} \cup {ConnectId(a) : a \in active} \cup {RequestId(a) : a \in active}
    /\ frames' = frames + 1
    /\ Deliver(c, f)

\* ------------------------------------------------------------------------
\* Specification
\* ------------------------------------------------------------------------

Next ==
    \/ \E c \in Calls, k \in {"rpc", "check"} : Start(c, k)
    \/ \E c \in Calls : TransportOpen(c)
    \/ \E c \in Calls : TransportError(c)
    \/ \E c \in Calls : TransportLost(c)
    \/ \E c \in Calls : TransportClosed(c)
    \/ \E c \in Calls : Handshake(c)
    \/ \E c \in Calls : OpenFailed(c)
    \/ \E c \in Calls : SendRequest(c)
    \/ \E c \in Calls : CheckDone(c)
    \/ \E c \in Calls : HandshakeFailed(c)
    \/ \E c \in Calls : ResponseReceived(c)
    \/ \E c \in Calls : RequestFailed(c)
    \/ \E c \in Calls : CloseDone(c)
    \/ \E c \in Calls, f \in ResFrames : GatewayAnswer(c, f)
    \/ \E c \in Calls, f \in Frames : UnsolicitedFrame(c, f)

Spec == Init /\ [][Next]_vars

\* Two calls of the facade at the same time, with the token set, and the
\* gateway pushing one frame nobody asked for.
ConcurrentInit ==
    /\ env = [token |-> "secret", password |-> "unset"]
    /\ InitCalls
    /\ frames = MaxFrames - 1
    /\ active = Calls
    /\ NoCli
    /\ NoServiceWorker
    /\ NoApp

\* The steps of concurrent gatewayRpc calls whose connections stay up until
\* the calls close them.
ConcurrentNext ==
    \/ \E c \in Calls : Start(c, "rpc")
    \/ \E c \in Calls : TransportOpen(c)
    \/ \E c \in Calls : TransportError(c)
    \/ \E c \in Calls : TransportClosed(c)
    \/ \E c \in Calls : Handshake(c)
    \/ \E c \in Calls : OpenFailed(c)
    \/ \E c \in Calls : SendRequest(c)
    \/ \E c \in Calls : HandshakeFailed(c)
    \/ \E c \in Calls : ResponseReceived(c)
    \/ \E c \in Calls : RequestFailed(c)
    \/ \E c \in Calls : CloseDone(c)
    \/ \E c \in Calls, f \in ResFrames : GatewayAnswer(c, f)
    \/ \E c \in Calls, f \in Frames : UnsolicitedFrame(c, f)

ConcurrentSpec == ConcurrentInit /\ [][ConcurrentNext]_vars

\* The event loop runs every continuation that is ready; the transport
\* reports open or error, the gateway answers the requests it received, and
\* the close event follows a close.
Fairness ==
    \A c \in Calls :
        /\ WF_vars(Handshake(c))
        /\ WF_vars(OpenFailed(c))
        /\ WF_vars(SendRequest(c))
        /\ WF_vars(CheckDone(c))
        /\ WF_vars(HandshakeFailed(c))
        /\ WF_vars(ResponseReceived(c))
        /\ WF_vars(RequestFailed(c))
        /\ WF_vars(CloseDone(c))
        /\ WF_vars(TransportOpen(c) \/ TransportError(c))
        /\ WF_vars(\E f \in ResFrames : GatewayAnswer(c, f))
        /\ WF_vars(TransportClosed(c))

FairSpec == Init /\ [][Next]_vars /\ Fairness

TypeOK ==
    /\ pc \in [Calls -> {"idle", "opening", "handshaking", "requesting", "closing", "done"}]
    /\ ws \in [Calls -> {"none", "CONNECTING", "OPEN", "CLOSING", "CLOSED"}]
    /\ frames \in 0..MaxFrames

\* ------------------------------------------------------------------------
\* The CLI (bin): opencami --gateway <url>
\* ------------------------------------------------------------------------

\* What may follow --gateway on the command line: nothing (the flag is the
\* last argument), or a URL.
GatewayArgs == {NoFlag, "", DefaultGatewayUrl, OtherGatewayUrl}

\* getArg('gateway', def): `if (i === -1) return def; return args[i + 1] || def`
getArg(arg, def) ==
    IF arg = NoFlag THEN def
    ELSE IF arg = "" THEN def
    ELSE arg

\* The top level of the CLI up to the import of the server:
\* `const gateway = getArg('gateway', 'ws://127.0.0.1:18789')`,
\* `process.env.OPENCLAW_GATEWAY = gateway`.
CliMain ==
    /\ cli = "starting"
    /\ urlEnv' = [urlEnv EXCEPT !.OPENCLAW_GATEWAY = getArg(argv, DefaultGatewayUrl)]
    /\ cli' = "serving"
    /\ UNCHANGED <<gatewayVars, argv, swVars, appVars>>

\* The server is started by the CLI, with the token set; CLAWDBOT_GATEWAY_URL
\* is unset, blank, or set in the environment of the CLI.
CliInit ==
    /\ env = [token |-> "secret", password |-> "unset"]
    /\ InitCalls
    /\ frames = MaxFrames - 1
    /\ active = {1}
    /\ argv \in GatewayArgs
    /\ urlEnv \in [CLAWDBOT_GATEWAY_URL : {"unset", "blank", OtherGatewayUrl},
                   OPENCLAW_GATEWAY : {"unset"}]
    /\ cli = "starting"
    /\ NoServiceWorker
    /\ NoApp

CliNext ==
    \/ CliMain
    \/ Next

CliSpec == CliInit /\ [][CliNext]_vars

\* ------------------------------------------------------------------------
\* The route GET /api/models
\* ------------------------------------------------------------------------

\* A model id is its parts between '/', each part its words between '-';
\* the empty string is <<>>.  A display name is its words between ' '.
NoModel == <<>>

\* word.toUpperCase() and word.charAt(0).toUpperCase() + word.slice(1), on
\* the words of the ids above.
ToUpperCase(word) ==
    CASE word = "gpt" -> "GPT"
      [] word = "ai" -> "AI"
      [] word = "api" -> "API"
      [] OTHER -> word

Capitalize(word) ==
    CASE word = "claude" -> "Claude"
      [] word = "sonnet" -> "Sonnet"
      [] word = "local" -> "Local"
      [] word = "gpt" -> "Gpt"
      [] word = "ai" -> "Ai"
      [] OTHER -> word

parseModelName(modelId) ==
    LET model == IF Len(modelId) > 1 THEN modelId[2] ELSE modelId[1]
    IN  [k \in 1..Len(model) |->
            IF model[k] \in {"gpt", "ai", "api"} THEN ToUpperCase(model[k])
            ELSE Capitalize(model[k])]

\* What config.get returned, as the route reads it: `undefined` has no
\* property config; "p1" is a configuration with one enabled and one disabled
\* chat model ("anthropic/claude-sonnet-4", "openai/gpt-4"), one allowed
\* model ("local-ai") and no default.
GatewayConfigResponse(payload) ==
    IF payload = "undefined"
    THEN [defined |-> FALSE, chatModels |-> <<>>, chatDefault |-> NoModel,
          allowed |-> <<>>, modelDefault |-> NoModel]
    ELSE [defined |-> TRUE,
          chatModels |->
              << [id |-> << <<"anthropic">>, <<"claude", "sonnet", "4">> >>,
                  name |-> <<>>, enabled |-> TRUE],
                 [id |-> << <<"openai">>, <<"gpt", "4">> >>,
                  name |-> <<"GPT", "Four">>, enabled |-> FALSE] >>,
          chatDefault |-> NoModel,
          allowed |-> << << <<"local", "ai">> >> >>,
          modelDefault |-> NoModel]

\* The response of the catch block.
ModelsFallback ==
    [ok |-> TRUE,
     models |-> << [id |-> << <<"default">> >>, name |-> <<"Default", "Model">>] >>,
     defaultModel |-> << <<"default">> >>]

\* The response of the try block for the payload res.
ModelsFromConfig(res) ==
    LET Enabled(m) == m.enabled /\ m.id # NoModel
        chosen == SelectSeq(res.chatModels, Enabled)
        fromChat == [k \in 1..Len(chosen) |->
                        [id |-> chosen[k].id,
                         name |-> IF chosen[k].name # <<>> THEN chosen[k].name
                                  ELSE parseModelName(chosen[k].id)]]
        models == IF Len(fromChat) = 0
                  THEN [k \in 1..Len(res.allowed) |->
                           [id |-> res.allowed[k], name |-> parseModelName(res.allowed[k])]]
                  ELSE fromChat
        defaultModel == IF res.chatDefault # NoModel THEN res.chatDefault
                        ELSE IF res.modelDefault # NoModel THEN res.modelDefault
                        ELSE IF Len(models) > 0 THEN models[1].id
                        ELSE NoModel
    IN  [ok |-> TRUE, models |-> models, defaultModel |-> defaultModel]

ModelsGETPropagates(r) ==
    IF r.kind = "rejected" THEN [ok |-> FALSE, models |-> <<>>, defaultModel |-> NoModel]
    ELSE ModelsFromConfig(GatewayConfigResponse(r.val))

\* The GET handler, given how its gatewayRpc('config.get', ...) ended: a
\* rejection, and the TypeError of `res.config` on undefined, land in catch.
ModelsGET(r) ==
    IF r.kind = "rejected" THEN ModelsFallback
    ELSE IF ~GatewayConfigResponse(r.val).defined THEN ModelsFallback
    ELSE ModelsFromConfig(GatewayConfigResponse(r.val))

\* ------------------------------------------------------------------------
\* The service worker (public/sw.js)
\* ------------------------------------------------------------------------

\* The extension of url.pathname, for the URLs modelled.
Extension(u) ==
    CASE u = "/favicon.svg" -> "svg"
      [] u \in {"/assets/main.js", "/sw.js"} -> "js"
      [] OTHER -> ""

\* /\.(?:png|jpg|jpeg|svg|gif|webp|ico|woff|woff2|ttf|eot)$/i.test(url.pathname)
isStaticAsset(u) ==
    Extension(u) \in {"png", "jpg", "jpeg", "svg", "gif", "webp", "ico", "woff", "woff2",
                      "ttf", "eot"}

\* /\.(?:js|css)$/i.test(url.pathname) && url.pathname.includes('/assets/')
isBundle(u) == Extension(u) \in {"js", "css"} /\ u \in {"/assets/main.js"}

\* url.pathname.startsWith('/api/')
isApiCall(u) == u \in {"/api/models"}

\* request.headers.get('Upgrade') === 'websocket'
isWebSocket(request) == request.upgrade

\* request.mode === 'navigate'
isNavigation(request) == request.mode = "navigate"

\* What the page gets for a fetch event.  from: "passthrough" (the handler
\* did not call respondWith, the browser performs the request), "network",
\* "cache" (the entry stored under key), "undefined" (respondWith was given
\* a promise of undefined) or "error" (respondWith was given a rejection).
Answer(caches, net, from, key, ver, ok) ==
    [caches |-> caches, net |-> net, from |-> from, key |-> key, ver |-> ver, ok |-> ok]

\* cache.put(event.request, response.clone()) on the cache called name.
CachePut(caches, name, u, ver) == [caches EXCEPT ![name][u] = ver]

\* cache.match(key), once awaited: the entry, or undefined.
Matched(caches, net, name, key) ==
    IF caches[name][key] # 0
    THEN Answer(caches, net, "cache", key, caches[name][key], TRUE)
    ELSE Answer(caches, net, "undefined", "", 0, FALSE)

\* `p || q` where p is the promise cache.match(...) returns: a promise is an
\* object, so || yields p and q is not evaluated.
PromiseOr(p, q) == p

\* fetch(event.request).then(response => { if (response.ok) cache.put(...);
\* return response }), the promise having resolved (net is "ok" or "notok").
FetchedAndStored(caches, net, name, u, ver) ==
    IF net = "ok"
    THEN Answer(CachePut(caches, name, u, ver), net, "network", u, ver, TRUE)
    ELSE Answer(caches, net, "network", u, ver, FALSE)

\* The two cache-first branches (static assets, bundles): cache.match, and
\* only without an entry fetch and put; a failed fetch rejects the promise
\* given to respondWith.
CacheFirst(caches, net, name, u, ver) ==
    IF caches[name][u] # 0
    THEN Answer(caches, "unused", "cache", u, caches[name][u], TRUE)
    ELSE IF net = "fail"
    THEN Answer(caches, net, "error", "", 0, FALSE)
    ELSE FetchedAndStored(caches, net, name, u, ver)

\* The fetch listener for the event of request r, the network answering net
\* with version ver of the site.
FetchHandler(caches, r, net, ver) ==
    IF r.protocol \notin {"http:", "https:"}
    THEN Answer(caches, net, "passthrough", "", ver, net = "ok")
    ELSE IF isWebSocket(r)
    THEN Answer(caches, net, "passthrough", "", ver, net = "ok")
    ELSE IF isStaticAsset(r.url)
    THEN CacheFirst(caches, net, STATIC_CACHE, r.url, ver)
    ELSE IF isBundle(r.url)
    THEN CacheFirst(caches, net, STATIC_CACHE, r.url, ver)
    ELSE IF isApiCall(r.url)
    THEN IF net = "fail"
         THEN Matched(caches, net, API_CACHE, r.url)
         ELSE FetchedAndStored(caches, net, API_CACHE, r.url, ver)
    ELSE IF isNavigation(r)
    THEN IF net = "fail"
         THEN PromiseOr(Matched(caches, net, CACHE_NAME, r.url),
                        Matched(caches, net, CACHE_NAME, "/"))
         ELSE FetchedAndStored(caches, net, CACHE_NAME, r.url, ver)
    ELSE Answer(caches, net, "passthrough", "", ver, net = "ok")

\* 'install': cache.addAll(PRECACHE_URLS), then skipWaiting().  addAll stores
\* all the responses or, when one request fails, none, and the install fails.
SwInstall ==
    /\ swPhase = "none"
    /\ \E net \in NetOutcomes :
          IF net = "ok"
          THEN /\ swCaches' = [swCaches EXCEPT ![CACHE_NAME] =
                      [u \in Urls |-> IF u \in PRECACHE_URLS THEN swNet ELSE @[u]]]
               /\ swPhase' = "installed"
          ELSE UNCHANGED <<swCaches, swPhase>>
    /\ UNCHANGED <<gatewayVars, cliVars, appVars, swNet, swLast>>

\* 'activate': every cache that is not one of currentCaches is deleted, then
\* clients.claim().
SwActivate ==
    /\ swPhase = "installed"
    /\ swCaches' = [n \in CacheNames |->
          IF n \in {CACHE_NAME, STATIC_CACHE, API_CACHE} THEN swCaches[n]
          ELSE [u \in Urls |-> 0]]
    /\ swPhase' = "active"
    /\ UNCHANGED <<gatewayVars, cliVars, appVars, swNet, swLast>>

\* 'fetch' on the active worker, with what the network does for the request.
SwFetch(r, net) ==
    /\ swPhase = "active"
    /\ LET a == FetchHandler(swCaches, r, net, swNet)
       IN  /\ swCaches' = a.caches
           /\ swLast' = [req |-> r, net |-> a.net, from |-> a.from, key |-> a.key,
                         ver |-> a.ver, ok |-> a.ok]
    /\ UNCHANGED <<gatewayVars, cliVars, appVars, swPhase, swNet>>

\* A new version of the site is deployed.
Deploy ==
    /\ swNet < MaxVersion
    /\ swNet' = swNet + 1
    /\ UNCHANGED <<gatewayVars, cliVars, appVars, swPhase, swCaches, swLast>>

\* A browser loads the page for the first time, or has a cache of an earlier
\* version of the worker; the server makes no gateway call.
SwInit ==
    /\ env = [token |-> "secret", password |-> "unset"]
    /\ InitCalls
    /\ frames = 0
    /\ active = {}
    /\ NoCli
    /\ swPhase = "none"
    /\ \E old \in {0, 1} :
          swCaches = [n \in CacheNames |->
                         [u \in Urls |-> IF n = OldCache /\ u = "/" THEN old ELSE 0]]
    /\ swNet = 1
    /\ swLast = NoFetch
    /\ NoApp

SwNext ==
    \/ SwInstall
    \/ SwActivate
    \/ Deploy
    \/ \E r \in FetchEvents, net \in NetOutcomes : SwFetch(r, net)

SwSpec == SwInit /\ [][SwNext]_vars

\* ------------------------------------------------------------------------
\* Follow-up suggestions, src/src/screens/chat/lib/follow-up-generator.ts
\* ------------------------------------------------------------------------

fallbacks ==
    << [text |-> "Can you give me a concrete example?", type |-> "example"],
       [text |-> "What would be the next steps?", type |-> "actionable"],
       [text |-> "How does this work in practice?", type |-> "expand"],
       [text |-> "Are there any common mistakes to avoid?", type |-> "clarify"],
       [text |-> "Can you simplify this explanation?", type |-> "clarify"] >>

\* Strategies 1 to 6: what the detectors hasCode, hasList, hasAlternatives,
\* isExplanatory, hasCaveats and extractTopics push, in order.
Strategies(text) ==
    LET s1 == IF text.code
              THEN << [text |-> "Can you explain this code step by step?", type |-> "clarify"],
                      [text |-> "How would I modify this for my use case?", type |-> "actionable"] >>
              ELSE <<>>
        s2 == IF text.list
              THEN s1 \o << [text |-> "Can you elaborate on the first point?", type |-> "expand"],
                            [text |-> "Which of these is most important to start with?",
                             type |-> "actionable"] >>
              ELSE s1
        s3 == IF text.alternatives
              THEN s2 \o << [text |-> "What are the pros and cons of each approach?",
                             type |-> "alternative"],
                            [text |-> "Which option would you recommend and why?",
                             type |-> "clarify"] >>
              ELSE s2
        s4 == IF text.explanatory /\ Len(s3) < 3
              THEN Append(s3, [text |-> "Can you give me a practical example?", type |-> "example"])
              ELSE s3
        s5 == IF text.caveats /\ Len(s4) < 3
              THEN Append(s4, [text |-> "What potential issues should I watch out for?",
                               type |-> "clarify"])
              ELSE s4
    IN  IF Len(text.topics) > 0 /\ Len(s5) < 3
        THEN Append(s5, [text |-> IF text.topics[1] = "React"
                                  THEN "Tell me more about React"
                                  ELSE "Tell me more about Vite",
                         type |-> "expand"])
        ELSE s5

\* The first loop over the fallbacks, from fallbacks[i]: one of a type not
\* used yet is pushed.
RECURSIVE FillDiverse(_, _, _)
FillDiverse(suggestions, usedTypes, i) ==
    IF i > Len(fallbacks) \/ Len(suggestions) >= 3
    THEN suggestions
    ELSE IF fallbacks[i].type \notin usedTypes
         THEN FillDiverse(Append(suggestions, fallbacks[i]),
                          usedTypes \cup {fallbacks[i].type}, i + 1)
         ELSE FillDiverse(suggestions, usedTypes, i + 1)

\* The second loop, from fallbacks[i]: one whose text is not there is pushed.
RECURSIVE FillAny(_, _)
FillAny(suggestions, i) ==
    IF i > Len(fallbacks) \/ Len(suggestions) >= 3
    THEN suggestions
    ELSE IF \A k \in 1..Len(suggestions) : suggestions[k].text # fallbacks[i].text
         THEN FillAny(Append(suggestions, fallbacks[i]), i + 1)
         ELSE FillAny(suggestions, i + 1)

generateHeuristicFollowUpsUnsliced(text) ==
    LET suggestions == Strategies(text)
    IN  FillAny(FillDiverse(suggestions,
                            {suggestions[k].type : k \in 1..Len(suggestions)}, 1), 1)

generateHeuristicFollowUps(text) ==
    LET suggestions == Strategies(text)
        filled == FillAny(FillDiverse(suggestions,
                                      {suggestions[k].type : k \in 1..Len(suggestions)},
                                      1), 1)
    IN  SubSeq(filled, 1, IF Len(filled) < 3 THEN Len(filled) ELSE 3)

getHeuristicFollowUpTexts(text) ==
    LET suggestions == generateHeuristicFollowUps(text)
    IN  [k \in 1..Len(suggestions) |-> suggestions[k].text]

\* getFollowUpTexts is called on a response text.
GetFollowUpTexts(text) ==
    /\ ~heuristic.done
    /\ heuristic' = [text |-> text, suggestions |-> generateHeuristicFollowUps(text),
                     done |-> TRUE]
    /\ UNCHANGED <<gatewayVars, cliVars, swVars, hookVars, llm, composer, submitted, pool, search>>

HeuristicSpec == AppInit /\ [][\E text \in ResponseTexts : GetFollowUpTexts(text)]_vars

\* ------------------------------------------------------------------------
\* The hook useFollowUpSuggestions
\* ------------------------------------------------------------------------

\* What fetchFollowUpSuggestions resolves with: the suggestions of the LLM, or
\* [] after an error, a timeout or an abort.  It never rejects.
LlmSuggestions(text) ==
    IF text.head = "A" THEN <<"What about A?">> ELSE <<"What about B?">>
fetchFollowUpSuggestions(text) == {LlmSuggestions(text), <<>>}

responseKey(text) == <<text.head, text.len>>

\* controller.abort() of the controller at index i (0: there is none).
Abort(reqs, i) == IF i = 0 THEN reqs ELSE [reqs EXCEPT ![i].aborted = TRUE]

\* controller.signal.aborted, as the callbacks of the request read it.
signalNeverAborted(req) == FALSE
signalAborted(req) == req.aborted

\* The body of the effect for the props p, the cleanup of the effect before
\* it having left the requests reqs.
Effect(p, reqs) ==
    IF p.responseText.len < p.minResponseLength
    THEN /\ followUpState' = NoSuggestions
         /\ followUpRequests' = reqs
         /\ effectCleanup' = 0
         /\ UNCHANGED <<lastResponseRef, abortControllerRef>>
    ELSE IF responseKey(p.responseText) = lastResponseRef
    THEN /\ followUpRequests' = reqs
         /\ effectCleanup' = 0
         /\ UNCHANGED <<followUpState, lastResponseRef, abortControllerRef>>
    ELSE /\ lastResponseRef' = responseKey(p.responseText)
         /\ IF p.heuristicsOnly
            THEN /\ followUpState' =
                        [suggestions |-> getHeuristicFollowUpTexts(p.responseText),
                         isLoading |-> FALSE, error |-> "null", source |-> "heuristic"]
                 /\ followUpRequests' = Abort(reqs, abortControllerRef)
                 /\ effectCleanup' = 0
                 /\ UNCHANGED abortControllerRef
            ELSE /\ Len(reqs) < MaxRequests
                 /\ followUpState' =
                        [suggestions |-> getHeuristicFollowUpTexts(p.responseText),
                         isLoading |-> TRUE, error |-> "null", source |-> "heuristic"]
                 /\ followUpRequests' =
                        Append(Abort(reqs, abortControllerRef),
                               [text |-> p.responseText, aborted |-> FALSE,
                                settled |-> FALSE, superseded |-> FALSE])
                 /\ abortControllerRef' = Len(reqs) + 1
                 /\ effectCleanup' = Len(reqs) + 1

\* The component that uses the hook is mounted with the props p: the effect
\* runs.
FollowUpMount(p) ==
    /\ hookMounted = "no"
    /\ hookMounted' = "yes"
    /\ followUpProps' = p
    /\ Effect(p, followUpRequests)
    /\ UNCHANGED <<gatewayVars, cliVars, swVars, heuristic, llm, composer, submitted, pool, search>>

\* The component renders with props of which a dependency of the effect has
\* changed: the cleanup of the last effect runs, then the effect.  The
\* requests started for a text that is no longer the one shown are marked.
FollowUpRender(p) ==
    /\ hookMounted = "yes"
    /\ p # followUpProps
    /\ followUpProps' = p
    /\ Effect(p, Abort([i \in 1..Len(followUpRequests) |->
                           [followUpRequests[i] EXCEPT
                               !.superseded = @ \/ p.responseText # followUpProps.responseText]],
                       effectCleanup))
    /\ UNCHANGED <<gatewayVars, cliVars, swVars, heuristic, llm, composer, submitted, pool, search,
                   hookMounted>>

\* The component is unmounted: the cleanup of the last effect runs.
FollowUpUnmount ==
    /\ hookMounted = "yes"
    /\ hookMounted' = "unmounted"
    /\ followUpRequests' =
          Abort([i \in 1..Len(followUpRequests) |->
                    [followUpRequests[i] EXCEPT !.superseded = TRUE]], effectCleanup)
    /\ effectCleanup' = 0
    /\ UNCHANGED <<gatewayVars, cliVars, swVars, heuristic, llm, composer, submitted, pool, search,
                   followUpProps, followUpState,
                   lastResponseRef, abortControllerRef>>

\* The promise of request r is fulfilled with llmSuggestions: its then
\* callback runs.
FollowUpSettled(r, llmSuggestions) ==
    /\ r \in 1..Len(followUpRequests)
    /\ ~followUpRequests[r].settled
    /\ llmSuggestions \in fetchFollowUpSuggestions(followUpRequests[r].text)
    /\ followUpRequests' = [followUpRequests EXCEPT ![r].settled = TRUE]
    /\ followUpState' =
          IF signalAborted(followUpRequests[r])
          THEN followUpState
          ELSE IF Len(llmSuggestions) > 0
          THEN [followUpState EXCEPT !.suggestions = llmSuggestions,
                                     !.source = "llm", !.isLoading = FALSE]
          ELSE [followUpState EXCEPT !.isLoading = FALSE]
    /\ UNCHANGED <<gatewayVars, cliVars, swVars, heuristic, llm, composer, submitted, pool, search,
                   followUpProps, lastResponseRef,
                   abortControllerRef, effectCleanup, hookMounted>>

FollowUpNext ==
    \/ \E p \in FollowUpProps : FollowUpMount(p)
    \/ \E p \in FollowUpProps : FollowUpRender(p)
    \/ FollowUpUnmount
    \/ \E r \in 1..MaxRequests, s \in fetchFollowUpSuggestions(AnswerA) \cup fetchFollowUpSuggestions(AnswerB) :
          FollowUpSettled(r, s)

\* Every request that was started settles: fetchFollowUpSuggestions has a
\* timeout.
FollowUpSpec ==
    /\ AppInit
    /\ [][FollowUpNext]_vars
    /\ \A r \in 1..MaxRequests :
          WF_vars(\E s \in fetchFollowUpSuggestions(AnswerA) \cup fetchFollowUpSuggestions(AnswerB) :
                      FollowUpSettled(r, s))

\* ------------------------------------------------------------------------
\* chatCompletion, src/src/lib/llm-client.ts
\* ------------------------------------------------------------------------

MODEL_FALLBACK_CHAIN == <<"gpt-4.1-nano", "gpt-4o-mini", "gpt-3.5-turbo">>

\* options.model: undefined, or a model the caller asks for.
RequestedModels == {"undefined", "gpt-4o", "gpt-3.5-turbo"}

modelsToTryAlwaysChain(model) == MODEL_FALLBACK_CHAIN

modelsToTry(model) == IF model # "undefined" THEN <<model>> ELSE MODEL_FALLBACK_CHAIN

\* How a request of chatCompletion ends: a completion with content, one
\* without, 404 / model_not_found, another status, the timeout's abort, a
\* rejected fetch, a body that is no JSON.
FetchOutcomes ==
    {"content", "empty", "model_not_found", "api_error", "AbortError", "rejected", "bad_json"}

\* chatCompletion is called: the first request is sent.
ChatCompletion(model) ==
    /\ llm.pc = "idle"
    /\ llm' = [pc |-> "fetching", model |-> model,
               requests |-> <<[model |-> modelsToTry(model)[1], outcome |-> "pending"]>>,
               lastError |-> "null", result |-> "pending"]
    /\ UNCHANGED <<gatewayVars, cliVars, swVars, heuristic, hookVars, composer, submitted, pool, search>>

\* The request in flight ends with out: the call returns the content, or
\* notes the error and goes on with the next model, or throws lastError
\* after the last one.
FetchSettled(out) ==
    /\ llm.pc = "fetching"
    /\ LET n == Len(llm.requests)
           settled == [llm.requests EXCEPT ![n].outcome = out]
           models == modelsToTry(llm.model)
       IN  llm' =
              IF out = "content"
              THEN [llm EXCEPT !.pc = "returned", !.requests = settled,
                               !.result = [content |-> llm.requests[n].model]]
              ELSE IF n < Len(models)
              THEN [llm EXCEPT !.requests = Append(settled, [model |-> models[n + 1],
                                                             outcome |-> "pending"]),
                               !.lastError = [error |-> out, model |-> llm.requests[n].model]]
              ELSE [llm EXCEPT !.pc = "thrown", !.requests = settled,
                               !.lastError = [error |-> out, model |-> llm.requests[n].model],
                               !.result = [error |-> out, model |-> llm.requests[n].model]]
    /\ UNCHANGED <<gatewayVars, cliVars, swVars, heuristic, hookVars, composer, submitted, pool, search>>

LlmNext ==
    \/ \E model \in RequestedModels : ChatCompletion(model)
    \/ \E out \in FetchOutcomes : FetchSettled(out)

LlmSpec == AppInit /\ [][LlmNext]_vars

\* ------------------------------------------------------------------------
\* The chat composer, src/src/screens/chat/components/chat-composer.tsx
\* ------------------------------------------------------------------------

\* What the textarea may hold: nothing, blanks, a message, the start of a
\* slash command, and a slash command taken from the menu.
ComposerValues == {"", "  ", "hello", "/", "/he", "/zz", "/help ", "/new "}

FALLBACK_SLASH_COMMANDS == <<"/help", "/new">>

\* filteredSlashCommands, empty unless showSlashCommands: the value is one
\* word that starts with a slash and the menu was not dismissed.
filteredSlashCommands(c) ==
    IF c.slashMenuDismissed \/ c.value \notin {"/", "/he", "/zz"}
    THEN <<>>
    ELSE IF c.value = "/" THEN FALLBACK_SLASH_COMMANDS
    ELSE IF c.value = "/he" THEN <<"/help">>
    ELSE <<>>

\* The parent renders the composer with the prop disabled; the first render
\* mounts it.
ComposerRender(disabled) ==
    /\ ~composer.mounted \/ composer.disabled # disabled
    /\ composer' = [composer EXCEPT !.mounted = TRUE, !.disabled = disabled]
    /\ UNCHANGED <<gatewayVars, cliVars, swVars, heuristic, hookVars, llm, submitted, pool,
                   search>>

handleValueChange(nextValue) ==
    /\ composer.mounted
    /\ nextValue # composer.value
    /\ composer' = [composer EXCEPT !.value = nextValue, !.selectedCommandIndex = 0,
                                    !.slashMenuDismissed = FALSE]
    /\ UNCHANGED <<gatewayVars, cliVars, swVars, heuristic, hookVars, llm, submitted, pool,
                   search>>

\* handleFileSelect and handleRemoveAttachment; the attachment button is
\* disabled with the composer.  n is the number of valid attachments.
SetAttachments(n) ==
    /\ composer.mounted
    /\ n # composer.attachments
    /\ n > composer.attachments => ~composer.disabled
    /\ composer' = [composer EXCEPT !.attachments = n]
    /\ UNCHANGED <<gatewayVars, cliVars, swVars, heuristic, hookVars, llm, submitted, pool,
                   search>>

\* handleSubmit, called by the prompt input on Enter or by the send button,
\* which is disabled when submitDisabled.
handleSubmit(path) ==
    /\ composer.mounted
    /\ LET commands == filteredSlashCommands(composer)
           body == IF composer.value = "  " THEN ""
                   ELSE IF composer.value = "/help " THEN "/help"
                   ELSE IF composer.value = "/new " THEN "/new"
                   ELSE composer.value
           submitDisabled == composer.disabled \/ (body = "" /\ composer.attachments = 0)
       IN  /\ path = "button" => ~submitDisabled
           /\ IF composer.disabled
              THEN UNCHANGED <<composer, submitted>>
              ELSE IF Len(commands) > 0
              THEN /\ composer' =
                         [composer EXCEPT
                             !.value = IF commands[IF composer.selectedCommandIndex < Len(commands) - 1
                                                   THEN composer.selectedCommandIndex + 1
                                                   ELSE Len(commands)] = "/help"
                                       THEN "/help " ELSE "/new ",
                             !.selectedCommandIndex = 0,
                             !.slashMenuDismissed = FALSE]
                   /\ UNCHANGED submitted
              ELSE IF body = "" /\ composer.attachments = 0
              THEN UNCHANGED <<composer, submitted>>
              ELSE /\ Len(submitted) < MaxSubmits
                   /\ submitted' = Append(submitted, [body |-> body,
                                                      attachments |-> composer.attachments,
                                                      disabled |-> composer.disabled])
                   /\ UNCHANGED composer
    /\ UNCHANGED <<gatewayVars, cliVars, swVars, heuristic, hookVars, llm, pool, search>>

handleComposerKeyDown(key) ==
    /\ composer.mounted
    /\ LET commands == filteredSlashCommands(composer)
           n == Len(commands)
           showSlashCommands == ~composer.slashMenuDismissed /\ composer.value \in {"/", "/he", "/zz"}
       IN  composer' =
              IF ~showSlashCommands THEN composer
              ELSE IF key = "Escape"
              THEN [composer EXCEPT !.slashMenuDismissed = TRUE, !.selectedCommandIndex = 0]
              ELSE IF n = 0 THEN composer
              ELSE IF key = "ArrowDown"
              THEN [composer EXCEPT !.selectedCommandIndex = (@ + 1) % n]
              ELSE IF key = "ArrowUp"
              THEN [composer EXCEPT !.selectedCommandIndex = (@ - 1 + n) % n]
              ELSE [composer EXCEPT
                       !.value = IF commands[IF composer.selectedCommandIndex < n - 1
                                             THEN composer.selectedCommandIndex + 1
                                             ELSE n] = "/help"
                                 THEN "/help " ELSE "/new ",
                       !.selectedCommandIndex = 0,
                       !.slashMenuDismissed = FALSE]
    /\ UNCHANGED <<gatewayVars, cliVars, swVars, heuristic, hookVars, llm, submitted, pool,
                   search>>

\* A persona is chosen in the persona picker.
handlePersonaSelect(command) ==
    /\ composer.mounted
    /\ Len(submitted) < MaxSubmits
    /\ submitted' = Append(submitted, [body |-> command, attachments |-> 0,
                                       disabled |-> composer.disabled])
    /\ UNCHANGED <<gatewayVars, cliVars, swVars, heuristic, hookVars, llm, composer, pool,
                   search>>

ComposerNext ==
    \/ \E disabled \in BOOLEAN : ComposerRender(disabled)
    \/ \E nextValue \in ComposerValues : handleValueChange(nextValue)
    \/ \E n \in {0, 1} : SetAttachments(n)
    \/ \E path \in {"enter", "button"} : handleSubmit(path)
    \/ \E key \in {"Escape", "ArrowDown", "ArrowUp", "Tab"} : handleComposerKeyDown(key)
    \/ handlePersonaSelect("/persona coder")

ComposerSpec == AppInit /\ [][ComposerNext]_vars

\* ------------------------------------------------------------------------
\* runWithConcurrency,
\* src/src/screens/chat/components/sidebar/sidebar-sessions.tsx
\* ------------------------------------------------------------------------

\* The limits runWithConcurrency is called with; handleDeleteSelected passes
\* 10.
Limits == {1, 2, 10}

\* Runner k takes the next item and calls the worker on it: the body of the
\* while loop up to its await.
TakeItemAgain(p, k) ==
    [p EXCEPT !.runners[k] = p.index + 1,
              !.calls[p.index + 1] = @ + 1,
              !.workers[p.index + 1] = "pending"]

TakeItem(p, k) ==
    [p EXCEPT !.index = @ + 1,
              !.runners[k] = p.index + 1,
              !.calls[p.index + 1] = @ + 1,
              !.workers[p.index + 1] = "pending"]

\* Array.from calls run() for runner k, k + 1, ..., each up to its first
\* await.
RECURSIVE StartRunners(_, _)
StartRunners(p, k) ==
    IF k > Len(p.runners) THEN p
    ELSE StartRunners(IF p.index < p.items THEN TakeItem(p, k) ELSE p, k + 1)

\* runWithConcurrency is called on n items.
runWithConcurrency(n, limit) ==
    /\ pool.pc = "idle"
    /\ pool' = StartRunners([pool EXCEPT !.pc = "running", !.items = n, !.limit = limit,
                                         !.runners = [k \in 1..(IF limit < n THEN limit ELSE n)
                                                         |-> 0]], 1)
    /\ UNCHANGED <<gatewayVars, cliVars, swVars, heuristic, hookVars, llm, composer, submitted,
                   search>>

\* The promise of the worker that runner k awaits settles: the runner notes
\* the error if there is one, and takes the next item or ends.
WorkerSettled(k, state) ==
    /\ pool.pc = "running"
    /\ k \in 1..Len(pool.runners)
    /\ pool.runners[k] # 0
    /\ LET item == pool.runners[k]
           caught == [pool EXCEPT !.workers[item] = state,
                                  !.runners[k] = 0,
                                  !.errors = IF state = "rejected" THEN Append(@, item) ELSE @]
       IN  pool' = IF caught.index < caught.items THEN TakeItem(caught, k) ELSE caught
    /\ UNCHANGED <<gatewayVars, cliVars, swVars, heuristic, hookVars, llm, composer, submitted,
                   search>>

\* Every runner has ended: Promise.all is fulfilled and the errors are
\* returned.
PoolResolved ==
    /\ pool.pc = "running"
    /\ \A k \in 1..Len(pool.runners) : pool.runners[k] = 0
    /\ pool' = [pool EXCEPT !.pc = "resolved", !.result = pool.errors]
    /\ UNCHANGED <<gatewayVars, cliVars, swVars, heuristic, hookVars, llm, composer, submitted,
                   search>>

PoolNext ==
    \/ \E n \in 0..MaxItems, limit \in Limits : runWithConcurrency(n, limit)
    \/ \E k \in 1..MaxItems, state \in {"fulfilled", "rejected"} : WorkerSettled(k, state)
    \/ PoolResolved

PoolSpec == AppInit /\ [][PoolNext]_vars

\* ------------------------------------------------------------------------
\* Global search, src/src/hooks/use-search.ts and
\* src/src/components/search-dialog.tsx
\* ------------------------------------------------------------------------

\* The sessions of the sidebar.  The history of "s1" is one message "abc",
\* that of "s2" an older message "ab".
Sessions == {"s1", "s2"}

\* What the user types in the dialog.
SearchQueries == {"", "a", "abc"}

\* The results the messages of a session give for a query.
Matches(session, searchQuery) ==
    IF searchQuery = "a" \/ session = "s1"
    THEN {[sessionKey |-> session, messageIndex |-> 0, matchStart |-> 0,
           matchEnd |-> IF searchQuery = "a" THEN 1 ELSE 3,
           timestamp |-> IF session = "s1" THEN 2 ELSE 1]}
    ELSE {}

\* allResults.sort, newest first.
RECURSIVE SortNewestFirst(_)
SortNewestFirst(allResults) ==
    IF allResults = {} THEN <<>>
    ELSE LET newest == CHOOSE r \in allResults :
                           \A o \in allResults : o.timestamp <= r.timestamp
         IN  <<newest>> \o SortNewestFirst(allResults \ {newest})

\* The user changes the query of the dialog in global mode: the effect
\* clears the timer of the query before, and clears the search or sets a
\* timer.
SetLocalQuery(localQuery) ==
    /\ localQuery # search.localQuery
    /\ search' = IF localQuery = ""
                 THEN [search EXCEPT !.localQuery = localQuery, !.timer = "none",
                                     !.globalResults = <<>>]
                 ELSE [search EXCEPT !.localQuery = localQuery, !.timer = localQuery]
    /\ UNCHANGED <<gatewayVars, cliVars, swVars, heuristic, hookVars, llm, composer, submitted,
                   pool>>

\* The timer fires: searchAllSessions runs up to its await; it fetches the
\* histories that are not cached, and goes on at once if there is none.
searchAllSessions ==
    /\ search.timer # "none"
    /\ Len(search.calls) < MaxSearches
    /\ LET searchQuery == search.timer
           allResults == UNION {Matches(session, searchQuery) : session \in search.cached}
           pending == Sessions \ search.cached
       IN  search' =
              [search EXCEPT
                  !.timer = "none",
                  !.calls = Append(@, [query |-> searchQuery, pending |-> pending,
                                       allResults |-> allResults]),
                  !.isSearching = pending # {},
                  !.globalResults = IF pending = {} THEN SortNewestFirst(allResults) ELSE @]
    /\ UNCHANGED <<gatewayVars, cliVars, swVars, heuristic, hookVars, llm, composer, submitted,
                   pool>>

\* The history of a session that call c asked for arrives, or the fetch
\* fails; when it was the last one the call sets the results.
HistoryFetched(c, session, ok) ==
    /\ c \in 1..Len(search.calls)
    /\ session \in search.calls[c].pending
    /\ LET call == search.calls[c]
           pending == call.pending \ {session}
           allResults == IF ok THEN call.allResults \cup Matches(session, call.query)
                         ELSE call.allResults
       IN  search' =
              [search EXCEPT
                  !.cached = IF ok THEN @ \cup {session} ELSE @,
                  !.calls[c] = [call EXCEPT !.pending = pending, !.allResults = allResults],
                  !.isSearching = IF pending = {} THEN FALSE ELSE @,
                  !.globalResults = IF pending = {} THEN SortNewestFirst(allResults) ELSE @]
    /\ UNCHANGED <<gatewayVars, cliVars, swVars, heuristic, hookVars, llm, composer, submitted,
                   pool>>

SearchNext ==
    \/ \E localQuery \in SearchQueries : SetLocalQuery(localQuery)
    \/ searchAllSessions
    \/ \E c \in 1..MaxSearches, session \in Sessions, ok \in BOOLEAN :
          HistoryFetched(c, session, ok)

SearchSpec == AppInit /\ [][SearchNext]_vars

\* ------------------------------------------------------------------------
\* Properties
\* ------------------------------------------------------------------------

Settles == {"resolve", "reject"}

\* C1: the application request frame is sent only after a response frame with
\* ok:true and the connect request's id was handled; after a rejected or
\* unanswered handshake no application request frame is sent.
C1_RequestAfterHandshake ==
    \A c \in Calls :
        /\ Has(c, "send", RequestId(c)) =>
              /\ Has(c, "resolve", ConnectId(c))
              /\ First(c, "send", ConnectId(c)) < First(c, "resolve", ConnectId(c))
              /\ First(c, "resolve", ConnectId(c)) < First(c, "send", RequestId(c))
              /\ events[c][1].e = "new_ws"
        /\ Has(c, "reject", ConnectId(c)) => ~Has(c, "send", RequestId(c))
        /\ ~Has(c, "resolve", ConnectId(c)) => ~Has(c, "send", RequestId(c))

C1_Witness ==
    \E c \in Calls : Has(c, "send", RequestId(c)) /\ Has(c, "resolve", ConnectId(c))

\* C2: the waiter of a registered id is settled at most once; the first
\* response frame with that id after registration settles it (ok:true
\* resolves with the payload of the frame) and removes the entry, every later
\* response frame with that id is ignored.
C2_SettledAtMostOnce ==
    /\ [](\A c \in Calls : \A i \in {ConnectId(c), RequestId(c)} :
            /\ Count(c, Settles, i) <= 1
            /\ Count(c, Settles, i) = 1 => i \notin waiters[c]
            /\ \A k \in 1..Len(events[c]) :
                  ( /\ events[c][k].e = "ignore" /\ events[c][k].id = i
                    /\ Has(c, "register", i) /\ First(c, "register", i) < k )
                  => \E j \in 1..(k - 1) :
                        /\ events[c][j].e \in Settles /\ events[c][j].id = i
                        /\ First(c, "register", i) < j)
    /\ [][\A c \in Calls :
            (waiters'[c] # waiters[c] /\ awaited[c].state = "pending") =>
                \A f \in ResFrames :
                    ( /\ f.ok /\ f.id \in waiters[c]
                      /\ (GatewayAnswer(c, f) \/ UnsolicitedFrame(c, f)) ) =>
                        /\ awaited'[c].state = "resolved"
                        /\ awaited'[c].val = f.payload
                        /\ f.id \notin waiters'[c]]_vars

\* A duplicate response arrived after the waiter was settled.
C2_Witness ==
    \E c \in Calls : \E k \in 1..Len(events[c]) :
        /\ events[c][k].e = "ignore"
        /\ \E j \in 1..(k - 1) :
              events[c][j].e \in Settles /\ events[c][j].id = events[c][k].id

\* Neither CLAWDBOT_GATEWAY_TOKEN nor CLAWDBOT_GATEWAY_PASSWORD holds a value.
NoCredentials ==
    /\ env.token \in {"unset", "blank"}
    /\ env.password \in {"unset", "blank"}

\* C3: without token and password a started call has failed with the
\* configuration error, no WebSocket was created and nothing was sent.
C3_ConfigErrorBeforeTransport ==
    \A c \in Calls :
        (NoCredentials /\ pc[c] # "idle") =>
            /\ pc[c] = "done"
            /\ result[c] = Rejected(MissingAuth)
            /\ ws[c] = "none"
            /\ events[c] = <<>>
            /\ listeners[c] = {}

C3_Witness ==
    \E c \in Calls : NoCredentials /\ kind[c] = "check" /\ pc[c] = "done"

\* C4: after an error of the transport before it was open, no frame is sent,
\* the call fails with the connection error, and the finally block neither
\* waits nor throws nor asks the socket to close.
C4_OpenErrorSendsNothing ==
    \A c \in Calls :
        Has(c, "error", NoId) =>
            /\ \A k \in 1..Len(events[c]) : events[c][k].e # "send"
            /\ pc[c] \in {"opening", "done"}
            /\ pc[c] = "done" => result[c] = Rejected(WebSocketError)
            /\ ~Has(c, "close", NoId)
            /\ ~uncaught

C4_Witness ==
    \E c \in Calls : Has(c, "error", NoId) /\ pc[c] = "done" /\ ws[c] = "CLOSING"

\* C5: when the caller observes the rejection of a call that created a
\* transport, wsClose has run: the socket is closing or closed.
C5_ClosedBeforeRejection ==
    \A c \in Calls :
        (result[c].kind = "rejected" /\ ws[c] # "none") =>
            /\ pc[c] = "done"
            /\ ws[c] \in {"CLOSING", "CLOSED"}

C5_Witness ==
    \E c \in Calls :
        /\ result[c].kind = "rejected"
        /\ Has(c, "reject", ConnectId(c))
        /\ Has(c, "close", NoId)

\* C6: every call that created a transport eventually reaches Closed (the
\* teardown is done and the call has returned or thrown).
C6_EventuallyClosed ==
    \A c \in Calls : (ws[c] # "none") ~> (pc[c] = "done")

AwaitingResponse(c) == pc[c] \in {"handshaking", "requesting"} /\ awaited[c].state = "pending"

\* C7: the close event of the transport resumes a call that is suspended on
\* the handshake response or on the application response.
C7_CloseResumesAwait ==
    [][\A c \in Calls :
          (AwaitingResponse(c) /\ TransportClosed(c)) => awaited'[c].state # "pending"]_vars

\* C8: handling a response frame whose id has no pending entry leaves the
\* pending map and the awaited promise as they were, settles no waiter and
\* throws nothing.
C8_UnmatchedResponseIgnored ==
    [][\A c \in Calls :
          ("message" \in listeners[c] /\ frames' # frames) =>
              \A f \in ResFrames :
                  (f.id \notin waiters[c] /\ UnsolicitedFrame(c, f)) =>
                      /\ waiters' = waiters
                      /\ awaited' = awaited
                      /\ uncaught' = uncaught
                      /\ result' = result
                      /\ events'[c] = Append(events[c], Event("ignore", f.id, "res"))]_vars

\* An unmatched response was ignored while another id was pending.
C8_Witness ==
    \E c \in Calls :
        /\ waiters[c] # {}
        /\ Len(events[c]) > 0
        /\ events[c][Len(events[c])].e = "ignore"
        /\ events[c][Len(events[c])].id \notin waiters[c]

\* The message the claim expects for a rejected response frame.
ExpectedMessage(f) ==
    IF f.error = NoError \/ ~f.error.hasMessage THEN "gateway error" ELSE f.error.message

\* C9: a response frame with ok:false whose id is pending rejects the awaited
\* promise with error.message, or "gateway error" when there is no error or no
\* message, and that error is what the caller of gatewayRpc receives.
C9_RejectionMessage ==
    /\ [][\A c \in Calls :
            (waiters'[c] # waiters[c] /\ awaited[c].state = "pending") =>
                \A f \in ResFrames :
                    (~f.ok /\ f.id \in waiters[c] /\ GatewayAnswer(c, f)) =>
                        /\ awaited'[c].state = "rejected"
                        /\ awaited'[c].val = ExpectedMessage(f)
                        /\ f.id \notin waiters'[c]]_vars
    /\ [](\A c \in Calls : \A i \in {ConnectId(c), RequestId(c)} : \A k \in 1..Len(events[c]) :
            ( /\ kind[c] = "rpc" /\ pc[c] = "done"
              /\ events[c][k].e = "reject" /\ events[c][k].id = i )
            => result[c] = Rejected(events[c][k].val))

C9_Witness ==
    \E c \in Calls :
        /\ kind[c] = "rpc" /\ pc[c] = "done"
        /\ Has(c, "reject", RequestId(c))
        /\ result[c] = Rejected("gateway error")

\* The transport opened and the gateway answered the connect request and then
\* the application request with ok:true; the call has completed.
HappyPath(c) ==
    /\ kind[c] = "rpc" /\ pc[c] = "done"
    /\ Has(c, "resolve", ConnectId(c))
    /\ Has(c, "resolve", RequestId(c))

\* C10 as stated: the call resolves with the payload of the response to the
\* application request, and close is requested exactly once, after it.
C10_Original ==
    \A c \in Calls :
        HappyPath(c) =>
            /\ result[c] = Resolved(events[c][First(c, "resolve", RequestId(c))].val)
            /\ Count(c, {"close"}, NoId) = 1
            /\ First(c, "resolve", RequestId(c)) < First(c, "close", NoId)

\* C10 amended: close is requested at most once and never before the
\* response, and exactly once unless the transport was lost on its own.
C10_ResolvesAndClosesOnce ==
    \A c \in Calls :
        HappyPath(c) =>
            /\ result[c] = Resolved(events[c][First(c, "resolve", RequestId(c))].val)
            /\ Count(c, {"close"}, NoId) <= 1
            /\ Has(c, "close", NoId) => First(c, "resolve", RequestId(c)) < First(c, "close", NoId)
            /\ ~dropped[c] => Count(c, {"close"}, NoId) = 1

C10_Witness ==
    \E c \in Calls :
        /\ HappyPath(c)
        /\ result[c] = Resolved("p1")
        /\ events[c][First(c, "resolve", ConnectId(c))].val = "undefined"
        /\ Has(c, "close", NoId)
        /\ ws[c] = "CLOSED"

\* C11: gatewayConnectCheck registers and sends nothing but the connect
\* request, each at most once and exactly once when the handshake was
\* answered with ok:true, and then it resolves.
C11_CheckOnlyHandshakes ==
    \A c \in Calls :
        kind[c] = "check" =>
            /\ \A k \in 1..Len(events[c]) :
                  events[c][k].e \in {"send", "register"} => events[c][k].id = ConnectId(c)
            /\ Count(c, {"send"}, ConnectId(c)) <= 1
            /\ Count(c, {"register"}, ConnectId(c)) <= 1
            /\ pc[c] # "requesting"
            /\ Has(c, "resolve", ConnectId(c)) =>
                  /\ Count(c, {"send"}, ConnectId(c)) = 1
                  /\ Count(c, {"register"}, ConnectId(c)) = 1
                  /\ result[c].kind # "rejected"
                  /\ pc[c] = "done" => result[c] = Resolved("undefined")

C11_Witness ==
    \E c \in Calls :
        /\ kind[c] = "check" /\ pc[c] = "done"
        /\ Has(c, "resolve", ConnectId(c))
        /\ result[c] = Resolved("undefined")

\* C12: when close is requested after an awaited response settled, resolved
\* or rejected, the message handler was detached before.
C12_HandlerDetachedBeforeClose ==
    \A c \in Calls :
        ( /\ Has(c, "close", NoId)
          /\ \E i \in {ConnectId(c), RequestId(c)} : Count(c, Settles, i) > 0 )
        => /\ Has(c, "off_message", NoId)
           /\ First(c, "off_message", NoId) < First(c, "close", NoId)
           /\ "message" \notin listeners[c]

\* handleMessage of call c was given a response frame: the one step that adds
\* to the log of c while neither a call nor a socket moves.
ResponseHandled(c) ==
    /\ pc' = pc
    /\ ws' = ws
    /\ Len(events'[c]) = Len(events[c]) + 1
    /\ events'[c][Len(events'[c])].e \in {"ignore", "resolve", "reject"}

\* C13: every entry of a call's pending map is an id of that call, and a
\* response frame handled on the connection of one call leaves the pending
\* map, the awaited promise, the log and the outcome of the other call as
\* they were, also when its id is pending in the other call.
C13_CallsShareNothing ==
    /\ [](\A c \in Calls : waiters[c] \subseteq {ConnectId(c), RequestId(c)})
    /\ [][\A c \in Calls :
            ResponseHandled(c) =>
                \A d \in Calls \ {c} :
                    /\ waiters'[d] = waiters[d]
                    /\ awaited'[d] = awaited[d]
                    /\ events'[d] = events[d]
                    /\ outcome'[d] = outcome[d]
                    /\ result'[d] = result[d]]_vars

\* A call has just ignored a response whose id is pending in the other call.
C13_Witness ==
    \E c \in Calls : \E d \in Calls \ {c} :
        /\ Len(events[c]) > 0
        /\ events[c][Len(events[c])].e = "ignore"
        /\ events[c][Len(events[c])].id \in waiters[d]
        /\ awaited[d].state = "pending"
        /\ waiters[c] # {}

\* C14: a call creates at most one transport and sends at most one connect
\* request and at most one application request, and nothing else.
C14_NoRetries ==
    \A c \in Calls :
        kind[c] = "rpc" =>
            /\ Count(c, {"new_ws"}, NoId) <= 1
            /\ Count(c, {"send"}, ConnectId(c)) <= 1
            /\ Count(c, {"send"}, RequestId(c)) <= 1
            /\ \A k \in 1..Len(events[c]) :
                  events[c][k].e = "send" => events[c][k].id \in {ConnectId(c), RequestId(c)}

\* A call that failed at every stage it could fail at.
C14_Witness ==
    \E c \in Calls :
        /\ kind[c] = "rpc" /\ pc[c] = "done"
        /\ result[c].kind = "rejected"
        /\ Has(c, "reject", RequestId(c))
        /\ Count(c, {"send"}, ConnectId(c)) = 1
        /\ Count(c, {"send"}, RequestId(c)) = 1

\* The completion of the try block of a call, read from its log: the payload
\* or the error of the last response it awaited.
TryCompletion(c) ==
    IF Has(c, "reject", RequestId(c))
    THEN Rejected(events[c][First(c, "reject", RequestId(c))].val)
    ELSE IF Has(c, "resolve", RequestId(c))
    THEN Resolved(events[c][First(c, "resolve", RequestId(c))].val)
    ELSE IF Has(c, "reject", ConnectId(c))
    THEN Rejected(events[c][First(c, "reject", ConnectId(c))].val)
    ELSE IF Has(c, "resolve", ConnectId(c)) /\ kind[c] = "check"
    THEN Resolved("undefined")
    ELSE NoOutcome

\* C15: a call whose teardown asked the socket to close ends with the
\* completion of its try block, whether ws.close() threw or the close event
\* arrived.
C15_CloseErrorKeepsOutcome ==
    \A c \in Calls :
        (pc[c] = "done" /\ Has(c, "close", NoId)) => result[c] = TryCompletion(c)

\* ws.close() threw after a payload or after an error of the gateway.
C15_Witness ==
    /\ \E c \in Calls :
          /\ pc[c] = "done" /\ Has(c, "close_threw", NoId)
          /\ result[c] \in {Resolved("p1"), Rejected("bad token")}

\* C16: a frame that is no response (unparsable text, null, an event, a
\* request) changes nothing and throws nothing, and the response that follows
\* it still settles the waiter.
C16_NonResponseIgnored ==
    /\ [][\A c \in Calls :
            ("message" \in listeners[c] /\ frames' # frames) =>
                \A f \in OtherFrames :
                    UnsolicitedFrame(c, f) =>
                        /\ waiters' = waiters
                        /\ awaited' = awaited
                        /\ uncaught' = uncaught
                        /\ events' = events
                        /\ result' = result
                        /\ pc' = pc]_vars
    /\ [][\A c \in Calls :
            (c \in skipped /\ awaited[c].state = "pending" /\ waiters'[c] # waiters[c]) =>
                \A f \in ResFrames :
                    (f.id \in waiters[c] /\ GatewayAnswer(c, f)) =>
                        /\ awaited'[c].state = (IF f.ok THEN "resolved" ELSE "rejected")
                        /\ f.id \notin waiters'[c]]_vars

\* A frame that is no response arrived while the handshake was pending, and
\* the handshake response settled the waiter afterwards.
C16_Witness ==
    \E c \in Calls :
        /\ c \in skipped
        /\ ~Has(c, "register", RequestId(c))
        /\ Count(c, Settles, ConnectId(c)) = 1

\* C17 as stated: the id is registered, then the handler attached, then the
\* connect request sent; the id of the application request is registered
\* before its frame is sent.
C17_Original ==
    \A c \in Calls :
        /\ Has(c, "send", ConnectId(c)) =>
              /\ Has(c, "register", ConnectId(c))
              /\ First(c, "register", ConnectId(c)) < First(c, "on_message", NoId)
              /\ First(c, "on_message", NoId) < First(c, "send", ConnectId(c))
        /\ Has(c, "send", RequestId(c)) =>
              /\ Has(c, "register", RequestId(c))
              /\ First(c, "register", RequestId(c)) < First(c, "send", RequestId(c))

\* C17 amended: the handler is attached, then the connect request is sent,
\* then its id is registered, with nothing handled in between; the
\* application request is sent and then registered in the same way, the
\* handler still attached.
C17_AttachSendRegister ==
    \A c \in Calls :
        /\ Has(c, "send", ConnectId(c)) =>
              /\ Has(c, "on_message", NoId)
              /\ First(c, "send", ConnectId(c)) = First(c, "on_message", NoId) + 1
              /\ First(c, "register", ConnectId(c)) = First(c, "send", ConnectId(c)) + 1
        /\ Has(c, "send", RequestId(c)) =>
              /\ First(c, "on_message", NoId) < First(c, "send", RequestId(c))
              /\ ~Has(c, "off_message", NoId)
                    \/ First(c, "send", RequestId(c)) < First(c, "off_message", NoId)
              /\ First(c, "register", RequestId(c)) = First(c, "send", RequestId(c)) + 1

C17_Witness ==
    \E c \in Calls :
        /\ Has(c, "register", RequestId(c))
        /\ Has(c, "send", RequestId(c))
        /\ waiters[c] = {RequestId(c)}

\* C18: whenever the gatewayRpc of the route was rejected, GET /api/models
\* responds with ok:true, the single model 'default' and defaultModel
\* 'default'.
C18_ModelsFallback ==
    \A c \in Calls :
        (kind[c] = "rpc" /\ pc[c] = "done" /\ result[c].kind = "rejected") =>
            LET response == ModelsGET(result[c])
            IN  /\ response.ok
                /\ Len(response.models) = 1
                /\ response.models[1].id = << <<"default">> >>
                /\ response.defaultModel = << <<"default">> >>

\* config.get was rejected by the gateway.
C18_Witness ==
    \E c \in Calls :
        /\ kind[c] = "rpc" /\ pc[c] = "done"
        /\ Has(c, "reject", RequestId(c))
        /\ result[c] = Rejected("bad token")
        /\ ModelsGET(result[c]) = ModelsFallback

\* C19: the WebSocket of a call made by the server the CLI started is opened
\* to the URL given with --gateway, or to ws://127.0.0.1:18789 without it.
C19_GatewayFlagIsUsed ==
    \A c \in Calls :
        (cli = "serving" /\ ws[c] # "none") => wsUrl[c] = getArg(argv, DefaultGatewayUrl)

\* C20: a navigation whose fetch failed and whose request has no entry in
\* the cache is answered with the precached entry of '/'.
C20_OfflineShell ==
    ( /\ swLast.req.protocol = "https:"
      /\ isNavigation(swLast.req) /\ ~isApiCall(swLast.req.url)
      /\ swLast.net = "fail"
      /\ swCaches[CACHE_NAME][swLast.req.url] = 0
      /\ swCaches[CACHE_NAME]["/"] # 0 )
    => /\ swLast.from = "cache"
       /\ swLast.key = "/"
       /\ swLast.ver = swCaches[CACHE_NAME]["/"]

\* C21: a bundle under /assets/ that has a cached entry is answered from the
\* cache, and a network fetch is issued as well whose successful response
\* replaces the entry.
C21_BundlesRevalidated ==
    ( /\ swLast.req.protocol = "https:"
      /\ ~isWebSocket(swLast.req)
      /\ isBundle(swLast.req.url)
      /\ swLast.from = "cache" )
    => /\ swLast.net # "unused"
       /\ swLast.net = "ok" => swCaches[STATIC_CACHE][swLast.req.url] >= swLast.ver

\* C28: the pending map of a gatewayRpc call never holds more than one entry,
\* and it is empty once the call has completed after a response frame
\* settled its last await.
C28_AtMostOnePending ==
    \A c \in Calls :
        kind[c] = "rpc" =>
            /\ Cardinality(waiters[c]) <= 1
            /\ ( /\ pc[c] \in {"closing", "done"}
                 /\ \E i \in {ConnectId(c), RequestId(c)} : Count(c, Settles, i) > 0 )
               => waiters[c] = {}

\* The handshake resolved and the request was rejected: both entries came
\* and went.
C28_Witness ==
    \E c \in Calls :
        /\ kind[c] = "rpc" /\ pc[c] = "done"
        /\ Has(c, "resolve", ConnectId(c))
        /\ Has(c, "reject", RequestId(c))
        /\ waiters[c] = {}

\* C22: a request of useFollowUpSuggestions that was started for a text
\* that is no longer the one shown, or by a hook that is no longer mounted,
\* changes nothing of suggestions, source, error and isLoading when it
\* settles.
C22_SupersededRequestIsIgnored ==
    [][\A r \in 1..Len(followUpRequests) :
          ( /\ followUpRequests[r].superseded
            /\ ~followUpRequests[r].settled
            /\ followUpRequests'[r].settled )
          => followUpState' = followUpState]_vars

C22_Witness ==
    \E r \in 1..Len(followUpRequests) :
        /\ followUpRequests[r].superseded
        /\ followUpRequests[r].settled
        /\ followUpRequests[r].text = AnswerA
        /\ followUpProps.responseText = AnswerB
        /\ followUpState.source = "heuristic"
        /\ followUpState.suggestions = getHeuristicFollowUpTexts(AnswerB)

\* C23: while the hook is mounted, once every follow-up request it started
\* has settled, isLoading is false.
C23_LoadingEnds ==
    ( /\ hookMounted = "yes"
      /\ \A r \in 1..Len(followUpRequests) : followUpRequests[r].settled )
    => ~followUpState.isLoading

\* C24: generateHeuristicFollowUps returns exactly 3 suggestions, and their
\* texts are pairwise distinct.
C24_ThreeDistinctSuggestions ==
    heuristic.done =>
        /\ Len(heuristic.suggestions) = 3
        /\ \A i, j \in 1..Len(heuristic.suggestions) :
              i # j => heuristic.suggestions[i].text # heuristic.suggestions[j].text

C24_Witness ==
    /\ heuristic.done
    /\ heuristic.text.code /\ heuristic.text.list /\ heuristic.text.alternatives
    /\ Len(heuristic.suggestions) = 3

\* C25: without a requested model chatCompletion sends its requests to the
\* models of the fallback chain in order and one at a time, returns the
\* content of the first request that has one and sends nothing after it, and
\* throws the error of the last request only when all three have failed; with
\* a requested model it sends one request, to that model.
C25_FallbackChain ==
    llm.pc # "idle" =>
        LET n == Len(llm.requests)
        IN  /\ \A k \in 1..n : llm.requests[k].outcome = "pending" => k = n /\ llm.pc = "fetching"
            /\ \A k \in 1..(n - 1) : llm.requests[k].outcome \notin {"content", "pending"}
            /\ llm.pc = "returned" =>
                  /\ llm.requests[n].outcome = "content"
                  /\ llm.result = [content |-> llm.requests[n].model]
            /\ llm.model = "undefined" =>
                  /\ n <= 3
                  /\ \A k \in 1..n : llm.requests[k].model = MODEL_FALLBACK_CHAIN[k]
                  /\ llm.pc = "thrown" =>
                        /\ n = 3
                        /\ llm.requests[3].outcome \notin {"content", "pending"}
                        /\ llm.result = [error |-> llm.requests[3].outcome,
                                         model |-> MODEL_FALLBACK_CHAIN[3]]
            /\ llm.model # "undefined" =>
                  /\ n = 1
                  /\ llm.requests[1].model = llm.model

C25_Witness ==
    /\ llm.pc = "returned"
    /\ llm.model = "undefined"
    /\ Len(llm.requests) = 3
    /\ llm.requests[1].outcome = "model_not_found"
    /\ llm.requests[2].outcome = "AbortError"

\* C26: the chat composer never calls onSubmit while its prop disabled is
\* true.
C26_NoSubmitWhileDisabled ==
    \A i \in 1..Len(submitted) : ~submitted[i].disabled

\* C27: runWithConcurrency never calls the worker twice for an item and never
\* has more than limit workers pending; when it resolves, the worker has been
\* called once for every item and has settled, and the result lists one error
\* for each worker that rejected.
C27_EveryItemOnce ==
    pool.pc # "idle" =>
        /\ \A i \in 1..MaxItems : pool.calls[i] <= 1
        /\ \A i \in 1..MaxItems : i > pool.items => pool.calls[i] = 0
        /\ Cardinality({i \in 1..MaxItems : pool.workers[i] = "pending"}) <= pool.limit
        /\ pool.pc = "resolved" =>
              /\ \A i \in 1..pool.items :
                    pool.calls[i] = 1 /\ pool.workers[i] \in {"fulfilled", "rejected"}
              /\ {pool.result[j] : j \in 1..Len(pool.result)}
                    = {i \in 1..pool.items : pool.workers[i] = "rejected"}
              /\ Len(pool.result)
                    = Cardinality({i \in 1..pool.items : pool.workers[i] = "rejected"})

C27_Witness ==
    /\ pool.pc = "resolved"
    /\ pool.items = 3
    /\ pool.limit = 2
    /\ pool.workers[1] = "rejected"
    /\ pool.workers[3] = "fulfilled"
    /\ pool.result = <<2, 1>>

\* C29: once every call of searchAllSessions has completed, and the query of
\* the dialog is still the one of the last call, globalResults holds the
\* results of that last call and isSearching is false.
C29_LatestQueryWins ==
    LET n == Len(search.calls)
    IN  ( /\ n > 0
          /\ \A c \in 1..n : search.calls[c].pending = {}
          /\ search.timer = "none"
          /\ search.localQuery = search.calls[n].query )
        => /\ search.globalResults = SortNewestFirst(search.calls[n].allResults)
           /\ ~search.isSearching

====
